---- MODULE Spec2Model ----
(***************************************************************************)
(* The feature dispatch engine of the pumpkin controller backend:          *)
(* ControllerManager.setFeature / setMultipleTargets / getClient and       *)
(* WLEDClient.setSegment / setSegments (src/src/wled-client.js), driven    *)
(* either directly or through POST /api/feature/:featureName               *)
(* (src/src/api-routes.js).                                                *)
(*                                                                         *)
(* JavaScript values are modelled as follows.                              *)
(*   - a string built by a template literal or by join() is the sequence   *)
(*     of its pieces (literal pieces and interpolated values);             *)
(*   - a plain object whose key order matters (byController, results) is   *)
(*     the sequence of its <<key, value>> pairs in insertion order;        *)
(*   - a plain object whose key order does not matter (a payload, a        *)
(*     segment entry, a result, a response body) is a function from its    *)
(*     property names; an absent property is absent from the domain.       *)
(***************************************************************************)
EXTENDS Integers, Sequences, FiniteSets, TLC

VARIABLES
    features,      \* config.pumpkin.features, immutable after load
    clients,       \* keys of ControllerManager.clients
    pc,            \* position of the one invocation being served
    caller,        \* "route" (POST /api/feature/:featureName) or "direct"
    featureName,   \* argument of the invocation
    props,         \* argument of the invocation (the request body)
    byController,  \* setMultipleTargets: targets grouped by controller
    entries,       \* setMultipleTargets: Object.entries(byController)
    idx,           \* setMultipleTargets: position of the for-of loop in entries
    results,       \* setMultipleTargets: per-controller results
    errors,        \* setMultipleTargets: error strings of the failed controllers
    inflight,      \* the request the invocation is awaiting (sequence of 0 or 1)
    sent,          \* every request handed to axios.post during the invocation
    answered,      \* every client result so far with the transport outcome
                   \* behind it, <<controller key, result, outcome>>
    outcome,       \* what setFeature gave to its caller (sequence of 0 or 1)
    response,      \* the HTTP response of the route (sequence of 0 or 1)
    op,            \* the whole-installation operation in progress, or "none"
    input,         \* the validated property of req.body (sequence of 0 or 1)
    history,       \* the requests of the finished setFeature invocations
    recording,     \* what is kept of the finished invocations in this
                   \* behaviour: "requests" (history), "failures" (blackout)
    parked,        \* the locals of an invocation suspended at an await while
                   \* another one runs (sequence of 0 or 1)
    server,        \* startServer: "starting", "probing", "listening", "exited"
    debug,         \* WLEDClient.debug of every client
    trace,         \* console.log records of the clients and the calls of
                   \* axios, in program order
    blackout,      \* a finished dispatch had every controller fail
    \* the page (public/js/pumpkin.js, class PumpkinPainter)
    painterPc,            \* init(): "loading", "ready" or "failed"
    screensaverHidden,    \* #screensaver carries the class 'hidden'
    screensaverActive,
    shouldResetOnNextTap,
    inactivityTimeout,    \* timer handles: "null", pending or "fired"
    resetTimeout,
    idleStartTimeout,
    idleInterval,
    orphans,              \* pending timers that no field refers to, per kind
    cycles,               \* runIdleCycle invocations suspended at an await
    issued,               \* api.setFeature calls since the screensaver was
                          \* last shown or hidden
    activeLong,           \* the screensaver has been active for resetDelay
    toast,                \* the toast on screen with the answer behind it
                          \* (sequence of 0 or 1)
    catalog,              \* config.effects.effects and config.palettes.palettes
    cycle,                \* the runIdleCycle of this interval: its roll and its
                          \* applyEffectPalette calls in call order
                          \* (sequence of 0 or 1)
    \* one function made by debounce(func, wait)
    timeout,              \* the closure variable: 0 (undefined) or a timer id
    timers,               \* the pending timers of the wrapper, by id
    calls,                \* the arguments of the calls of the wrapper so far
    invoked,              \* the invocations of func so far
    \* the admin panel (public/js/app.js)
    selectedFeature,
    currentEffect,        \* sequence of 0 (null) or 1 effect id
    featureStates,
    applying,             \* the applySettings invocations awaiting
                          \* api.setFeature, [feature, props] each
    completed,            \* the api.setFeature calls that resolved
    isPowerOn,
    powerRequests,        \* the api.setPower calls of the power button
    \* the simulator (simulator/wled-simulator.js) and its wiring
    addresses,            \* config.pumpkin.controllers[key].ip
    baseUrls,             \* the address each WLEDClient was constructed with
    simulators            \* WLEDSimulator.state.seg of every simulated controller

page == <<toast, catalog, cycle>>
debounced == <<timeout, timers, calls, invoked>>
admin == <<selectedFeature, currentEffect, featureStates, applying, completed,
           isPowerOn, powerRequests>>
simulation == <<addresses, baseUrls, simulators>>

painter == <<painterPc, screensaverHidden, screensaverActive, shouldResetOnNextTap,
             inactivityTimeout, resetTimeout, idleStartTimeout, idleInterval,
             orphans, cycles, issued, activeLong,
             page, debounced, admin, simulation>>

vars == <<features, clients, pc, caller, featureName, props, byController,
          entries, idx, results, errors, inflight, sent, answered, outcome,
          response, op, input, history, recording, parked, server, debug,
          trace, blackout, painter>>

(***************************************************************************)
(* Bounds of the model.                                                    *)
(***************************************************************************)
MaxTargets == 3

(***************************************************************************)
(* The configuration universe.                                             *)
(***************************************************************************)
\* keys of config.pumpkin.controllers; "7" is an integer-like property name
ControllerKeys == {"c1", "c2", "7"}
\* a controller key that a feature may reference although it is not configured
GhostKey == "ghost"
\* (controller, segment) pairs a feature may reference
TargetUniverse ==
    { [controller |-> "c1", segment |-> 0], [controller |-> "c1", segment |-> 1],
      [controller |-> "c2", segment |-> 0], [controller |-> "7", segment |-> 0],
      [controller |-> GhostKey, segment |-> 0] }

\* feature names a caller may ask for; "doesNotExist" is never configured
SingleName == "leftEye"
MultiName == "bothEyes"
RequestNames == (DOMAIN features) \cup {"doesNotExist"}

\* request bodies; the route forwards req.body without validation
Payloads == { [fx |-> 9, pal |-> 2], [fx |-> 0, id |-> 5] }

\* transport outcomes of one axios.post: a 2xx answer, or error.message
TransportErrors == { <<"timeout of 5000ms exceeded">>, <<"connect ECONNREFUSED">> }
ResponseData == { "state" }

\* controller.name in the configuration, the client's friendly name
ControllerName(key) == <<"WLED ", key>>

RECURSIVE SeqsUpTo(_, _)
SeqsUpTo(S, n) ==
    IF n = 0 THEN { <<>> }
    ELSE LET shorter == SeqsUpTo(S, n - 1)
         IN  shorter \cup { Append(s, x) : s \in { t \in shorter : Len(t) = n - 1 }, x \in S }

TargetLists == SeqsUpTo(TargetUniverse, MaxTargets)

(***************************************************************************)
(* JavaScript object helpers.                                              *)
(***************************************************************************)
RECURSIVE HasKey(_, _)
HasKey(obj, k) ==
    IF obj = <<>> THEN FALSE
    ELSE IF Head(obj)[1] = k THEN TRUE ELSE HasKey(Tail(obj), k)

RECURSIVE GetKey(_, _)
\* obj[k] for a key the object has
GetKey(obj, k) ==
    IF Head(obj)[1] = k THEN Head(obj)[2] ELSE GetKey(Tail(obj), k)

\* obj[k] = v: an existing key keeps its place, a new key is appended
PutKey(obj, k, v) ==
    IF HasKey(obj, k)
    THEN [i \in 1..Len(obj) |-> IF obj[i][1] = k THEN <<k, v>> ELSE obj[i]]
    ELSE Append(obj, <<k, v>>)

\* the array index a property name denotes, -1 when it is not integer-like
ArrayIndex(k) == CASE k = "7" -> 7 [] OTHER -> -1

RECURSIVE InsertByIndex(_, _)
InsertByIndex(sorted, e) ==
    IF sorted = <<>> THEN <<e>>
    ELSE IF ArrayIndex(e[1]) < ArrayIndex(Head(sorted)[1]) THEN <<e>> \o sorted
    ELSE <<Head(sorted)>> \o InsertByIndex(Tail(sorted), e)

RECURSIVE SortByIndex(_)
SortByIndex(s) ==
    IF s = <<>> THEN <<>> ELSE InsertByIndex(SortByIndex(Tail(s)), Head(s))

\* Object.entries: integer-like keys in ascending order, then the other
\* keys in insertion order
ObjectEntries(obj) ==
    SortByIndex(SelectSeq(obj, LAMBDA e : ArrayIndex(e[1]) >= 0))
        \o SelectSeq(obj, LAMBDA e : ArrayIndex(e[1]) < 0)

\* { ...a, ...b }: the properties of b win
Spread(a, b) ==
    [k \in (DOMAIN a) \cup (DOMAIN b) |-> IF k \in DOMAIN b THEN b[k] ELSE a[k]]

RECURSIVE Join(_, _)
\* Array.prototype.join on strings
Join(items, sep) ==
    IF items = <<>> THEN <<>>
    ELSE IF Len(items) = 1 THEN items[1]
    ELSE items[1] \o <<sep>> \o Join(Tail(items), sep)

(***************************************************************************)
(* WLEDClient: the result a client operation gives for a transport outcome.*)
(* A transport outcome is [ok |-> TRUE, data |-> d] for a 2xx answer or    *)
(* [ok |-> FALSE, message |-> m] for an error axios.post rejects with.     *)
(***************************************************************************)
TransportOutcomes ==
    { [ok |-> TRUE, data |-> d] : d \in ResponseData }
        \cup { [ok |-> FALSE, message |-> m] : m \in TransportErrors }

\* the try/catch of setSegment and of setSegments
ClientResult(key, t) ==
    IF t.ok
    THEN [success |-> TRUE, data |-> t.data]
    ELSE [success |-> FALSE, error |-> t.message, controller |-> ControllerName(key)]

\* the methods that call this.log('-> POST ...', JSON.stringify(payload))
\* before their try block
LoggedBefore == {"setSegment", "setSegments", "setPower", "setBrightness", "loadPreset"}

\* what a client method writes and calls up to its await: the record of
\* this.log, if debug is on, and then the call of axios
ClientEvents(req) ==
    (IF req.call \in LoggedBefore /\ debug
     THEN << [kind |-> "log", controller |-> req.controller, payload |-> req.body] >>
     ELSE << >>)
        \o << [kind |-> "axios", controller |-> req.controller, call |-> req.call] >>

\* variant: the segment id is written after the properties
SetSegmentRequestIdLast(key, segmentId, p) ==
    [controller |-> key, call |-> "setSegment", path |-> "/json/state",
     body |-> [seg |-> << Spread(p, [id |-> segmentId]) >>]]

\* setSegment: payload = { seg: [{ id: segmentId, ...props }] }
SetSegmentRequest(key, segmentId, p) ==
    [controller |-> key, call |-> "setSegment", path |-> "/json/state",
     body |-> [seg |-> << Spread([id |-> segmentId], p) >>]]

\* setSegments: payload = { seg: segments }
SetSegmentsRequest(key, segments) ==
    [controller |-> key, call |-> "setSegments", path |-> "/json/state",
     body |-> [seg |-> segments]]

(***************************************************************************)
(* ControllerManager: pure parts.                                          *)
(***************************************************************************)
\* a property of a configuration object, "undefined" when absent
Field(o, name) == IF name \in DOMAIN o THEN o[name] ELSE "undefined"

\* variant: a targets array alone decides
IsMultiSegmentByTargets(feature) == "targets" \in DOMAIN feature

\* feature.multiSegment && feature.targets
IsMultiSegment(feature) ==
    /\ "multiSegment" \in DOMAIN feature
    /\ feature.multiSegment = TRUE
    /\ "targets" \in DOMAIN feature

\* variant: an unknown name falls back to a default feature
LookupFeatureFallback(name) ==
    IF name \in DOMAIN features THEN << features[name] >> ELSE << features[SingleName] >>

\* config.pumpkin.features[featureName]: a sequence holding the feature, empty
\* when the lookup gives undefined
LookupFeature(name) ==
    IF name \in DOMAIN features THEN << features[name] >> ELSE <<>>

\* variant: the loop also stops at the first failed controller
LoopDoneFailFast(i, ents, errs) == i > Len(ents) \/ Len(errs) > 0

\* the for-of loop over Object.entries(byController) has no entry left
LoopDone(i, ents, errs) == i > Len(ents)

\* variant: a client is handed out only when every feature of the registry
\* references configured controllers
ClientKnownRegistryChecked(key) ==
    /\ key \in clients
    /\ \A n \in DOMAIN features :
          /\ "controller" \in DOMAIN features[n] => features[n].controller \in clients
          /\ "targets" \in DOMAIN features[n] =>
                \A i \in DOMAIN features[n].targets :
                    features[n].targets[i].controller \in clients

\* getClient: this.clients[controllerKey] is set
ClientKnown(key) == key \in clients

ControllerNotFound(key) == <<"Controller '", key, "' not found">>
FeatureNotFound(name) == <<"Feature '", name, "' not found">>

RECURSIVE GroupInto(_, _, _)
\* the grouping loop of setMultipleTargets
GroupInto(obj, targets, p) ==
    IF targets = <<>> THEN obj
    ELSE LET target == Head(targets)
             started == IF HasKey(obj, target.controller)
                        THEN obj
                        ELSE PutKey(obj, target.controller, <<>>)
             pushed == Append(GetKey(started, target.controller),
                              Spread([id |-> target.segment], p))
         IN  GroupInto(PutKey(started, target.controller, pushed), Tail(targets), p)

\* variant: no grouping, one entry per target
GroupUnbatched(targets, p) ==
    [i \in 1..Len(targets) |->
        <<targets[i].controller, << Spread([id |-> targets[i].segment], p) >> >>]

RECURSIVE GroupIntoFront(_, _, _)
\* variant: unshift instead of push
GroupIntoFront(obj, targets, p) ==
    IF targets = <<>> THEN obj
    ELSE LET target == Head(targets)
             started == IF HasKey(obj, target.controller)
                        THEN obj
                        ELSE PutKey(obj, target.controller, <<>>)
             pushed == << Spread([id |-> target.segment], p) >>
                           \o GetKey(started, target.controller)
         IN  GroupIntoFront(PutKey(started, target.controller, pushed), Tail(targets), p)

GroupReversed(targets, p) == GroupIntoFront(<<>>, targets, p)

GroupByController(targets, p) == GroupInto(<<>>, targets, p)

\* `${controllerKey}: ${result.error}`
ErrorItem(key, result) == <<key, ": ">> \o result.error

\* variant: unshift instead of push
PushErrorFront(errs, key, result) ==
    IF ~result.success THEN << ErrorItem(key, result) >> \o errs ELSE errs

\* errors after one controller's result
PushError(errs, key, result) ==
    IF ~result.success THEN Append(errs, ErrorItem(key, result)) ELSE errs

\* variant: the failure result keeps only the failed controllers' results
AggregateFailuresOnly(res, errs) ==
    IF Len(errs) > 0
    THEN [success |-> FALSE, error |-> Join(errs, "; "),
          results |-> SelectSeq(res, LAMBDA e : ~e[2].success)]
    ELSE [success |-> TRUE, data |-> res]

\* variant: a failure is reported only when every controller failed
AggregateLenient(res, errs) ==
    IF Len(errs) > 0 /\ Len(errs) = Len(res)
    THEN [success |-> FALSE, error |-> Join(errs, "; "), results |-> res]
    ELSE [success |-> TRUE, data |-> res]

\* the combined result of setMultipleTargets
Aggregate(res, errs) ==
    IF Len(errs) > 0
    THEN [success |-> FALSE, error |-> Join(errs, "; "), results |-> res]
    ELSE [success |-> TRUE, data |-> res]

Returned(value) == << [kind |-> "return", value |-> value] >>
Thrown(message) == << [kind |-> "throw", message |-> message] >>

(***************************************************************************)
(* The route POST /api/feature/:featureName: pure parts.                   *)
(***************************************************************************)
\* the early 404 of the route
RouteKnowsFeature(name) == name \in DOMAIN features

NotFoundResponse(name) ==
    [status |-> 404, body |-> [success |-> FALSE, error |-> FeatureNotFound(name)]]

\* res.json / res.status(500).json after setFeature returned or threw;
\* properties whose value is undefined are not serialised
RouteResponse(name, p, feature, out) ==
    IF out.kind = "throw"
    THEN [status |-> 500, body |-> [success |-> FALSE, error |-> out.message]]
    ELSE IF out.value.success
    THEN [status |-> 200,
          body |-> Spread([ k \in {"controller", "segment"} \cap DOMAIN feature |-> feature[k] ],
                          [success |-> TRUE, feature |-> name, applied |-> p])]
    ELSE [status |-> 500, body |-> out.value]

(***************************************************************************)
(* Initial state: a loaded configuration, a constructed manager, no        *)
(* invocation in progress.                                                 *)
(***************************************************************************)
Configurations ==
    { (SingleName :> single) @@ (MultiName :> [multiSegment |-> TRUE, targets |-> ts]) :
        single \in TargetUniverse, ts \in TargetLists }

\* configurations whose features carry the flag without a targets array, or
\* a targets array without the flag
OddConfigurations ==
    { (SingleName :> [multiSegment |-> TRUE, controller |-> c, segment |-> 1])
          @@ (MultiName :> [multiSegment |-> FALSE, controller |-> c, segment |-> 0,
                            targets |-> << [controller |-> "c2", segment |-> 0],
                                           [controller |-> "7", segment |-> 0] >>]) :
        c \in {"c1", GhostKey} }

\* the server listens, with the clients of the hardware mode
Serving ==
    /\ parked = <<>>
    /\ server = "listening"
    /\ debug = TRUE
    /\ trace = <<>>
    /\ blackout = FALSE

TimerKinds == {"inactivityTimeout", "resetTimeout", "idleStartTimeout", "idleInterval"}
CyclePositions == {"whole", "face", "filler", "shell", "regions"}
NoCycles == [k \in CyclePositions |-> 0]

\* nothing of the page's toast and idle selection, of a debounced function,
\* of the admin panel or of the simulator takes part in the behaviour
NoToastNoCatalog ==
    /\ toast = <<>>
    /\ catalog = [effects |-> {}, palettes |-> {}]
    /\ cycle = <<>>

NoDebounce ==
    /\ timeout = 0
    /\ timers = <<>>
    /\ calls = <<>>
    /\ invoked = <<>>

NoAdmin ==
    /\ selectedFeature = "null"
    /\ currentEffect = <<>>
    /\ featureStates = <<>>
    /\ applying = <<>>
    /\ completed = {}
    /\ isPowerOn = TRUE
    /\ powerRequests = <<>>

NoSimulation ==
    /\ addresses = <<>>
    /\ baseUrls = <<>>
    /\ simulators = <<>>

\* new PumpkinPainter(): the fields the constructor sets
PainterFields ==
    /\ painterPc = "loading"
    /\ screensaverHidden \in BOOLEAN
    /\ screensaverActive = TRUE
    /\ shouldResetOnNextTap = FALSE
    /\ inactivityTimeout = "null"
    /\ resetTimeout = "null"
    /\ idleStartTimeout = "null"
    /\ idleInterval = "null"
    /\ orphans = [k \in TimerKinds |-> 0]
    /\ cycles = NoCycles
    /\ issued = {}
    /\ activeLong = FALSE

\* new PumpkinPainter()
PainterConstructed ==
    /\ PainterFields
    /\ NoToastNoCatalog
    /\ NoDebounce
    /\ NoAdmin
    /\ NoSimulation

\* no page is open
NoPage ==
    /\ PainterConstructed
    /\ screensaverHidden = FALSE

NoInvocation ==
    /\ pc = "idle"
    /\ caller = "none"
    /\ featureName = "none"
    /\ props = <<>>
    /\ byController = <<>>
    /\ entries = <<>>
    /\ idx = 1
    /\ results = <<>>
    /\ errors = <<>>
    /\ inflight = <<>>
    /\ sent = <<>>
    /\ answered = <<>>
    /\ outcome = <<>>
    /\ response = <<>>
    /\ op = "none"
    /\ input = <<>>

Init ==
    /\ features \in Configurations \cup OddConfigurations
    /\ clients = ControllerKeys
    /\ NoInvocation
    /\ history = {}
    /\ recording = {}
    /\ Serving
    /\ NoPage

(***************************************************************************)
(* Actions.                                                                *)
(***************************************************************************)
\* router.post('/feature/:featureName') up to the call of setFeature
PostFeature(name, p) ==
    /\ pc = "idle"
    /\ featureName' = name
    /\ props' = p
    /\ caller' = "route"
    /\ IF ~RouteKnowsFeature(name)
       THEN /\ response' = << NotFoundResponse(name) >>
            /\ pc' = "responded"
       ELSE /\ response' = response
            /\ pc' = "setFeature"
    /\ UNCHANGED <<features, clients, byController, entries, idx, results,
                   errors, inflight, sent, answered, outcome>>
    /\ UNCHANGED <<op, input, history, recording>>
    /\ UNCHANGED <<parked, server, debug, trace, blackout>>
    /\ UNCHANGED painter

\* controllerManager.setFeature(name, p) called by other code
CallSetFeature(name, p) ==
    /\ pc = "idle"
    /\ featureName' = name
    /\ props' = p
    /\ caller' = "direct"
    /\ pc' = "setFeature"
    /\ UNCHANGED <<features, clients, byController, entries, idx, results,
                   errors, inflight, sent, answered, outcome, response>>
    /\ UNCHANGED <<op, input, history, recording>>
    /\ UNCHANGED <<parked, server, debug, trace, blackout>>
    /\ UNCHANGED painter

\* setFeature up to its first suspension
SetFeature ==
    /\ pc = "setFeature"
    /\ IF LookupFeature(featureName) = <<>>
       THEN /\ outcome' = Thrown(FeatureNotFound(featureName))
            /\ pc' = "thrown"
            /\ UNCHANGED <<byController, entries, inflight, sent>>
       ELSE LET feature == LookupFeature(featureName)[1] IN
            IF IsMultiSegment(feature)
            THEN /\ byController' = GroupByController(feature.targets, props)
                 /\ entries' = ObjectEntries(byController')
                 /\ pc' = "loop"
                 /\ UNCHANGED <<inflight, sent, outcome>>
            ELSE LET key == Field(feature, "controller") IN
                 IF ~ClientKnown(key)
                 THEN /\ outcome' = Thrown(ControllerNotFound(key))
                      /\ pc' = "thrown"
                      /\ UNCHANGED <<byController, entries, inflight, sent>>
                 ELSE LET req == SetSegmentRequest(key, Field(feature, "segment"), props) IN
                      /\ inflight' = << req >>
                      /\ sent' = Append(sent, req)
                      /\ pc' = "awaitSegment"
                      /\ UNCHANGED <<byController, entries, outcome>>
    /\ UNCHANGED <<features, clients, caller, featureName, props, idx,
                   results, errors, answered, response>>
    /\ UNCHANGED <<op, input, history, recording>>
    /\ trace' = IF sent' = sent THEN trace
                 ELSE trace \o ClientEvents(sent'[Len(sent')])
    /\ UNCHANGED <<parked, server, debug, blackout>>
    /\ UNCHANGED painter

\* the loop without its await: the requests of this entry and of the next
\* one are handed to axios in the same turn
LoopStepPipelined ==
    /\ pc = "loop"
    /\ IF LoopDone(idx, entries, errors)
       THEN /\ outcome' = Returned(Aggregate(results, errors))
            /\ pc' = "returned"
            /\ UNCHANGED <<inflight, sent>>
       ELSE LET key == entries[idx][1]
                req == SetSegmentsRequest(key, entries[idx][2])
                more == IF idx < Len(entries)
                        THEN << SetSegmentsRequest(entries[idx + 1][1], entries[idx + 1][2]) >>
                        ELSE << >>
            IN  /\ inflight' = << req >> \o more
                /\ sent' = Append(sent, req) \o more
                /\ pc' = "awaitSegments"
                /\ UNCHANGED outcome
    /\ UNCHANGED <<features, clients, caller, featureName, props, byController,
                   entries, idx, results, errors, answered, response>>
    /\ UNCHANGED <<op, input, history, recording>>
    /\ trace' = trace
    /\ UNCHANGED <<parked, server, debug, blackout>>
    /\ UNCHANGED painter

\* one turn of the for-of loop of setMultipleTargets up to its await, or
\* the combined return after the last entry
LoopStep ==
    /\ pc = "loop"
    /\ IF LoopDone(idx, entries, errors)
       THEN /\ outcome' = Returned(Aggregate(results, errors))
            /\ pc' = "returned"
            /\ UNCHANGED <<inflight, sent>>
       ELSE LET key == entries[idx][1] IN
            IF ~ClientKnown(key)
            THEN /\ outcome' = Thrown(ControllerNotFound(key))
                 /\ pc' = "thrown"
                 /\ UNCHANGED <<inflight, sent>>
            ELSE LET req == SetSegmentsRequest(key, entries[idx][2]) IN
                 /\ inflight' = << req >>
                 /\ sent' = Append(sent, req)
                 /\ pc' = "awaitSegments"
                 /\ UNCHANGED outcome
    /\ UNCHANGED <<features, clients, caller, featureName, props, byController,
                   entries, idx, results, errors, answered, response>>
    /\ UNCHANGED <<op, input, history, recording>>
    /\ trace' = IF sent' = sent THEN trace
                 ELSE trace \o ClientEvents(sent'[Len(sent')])
    /\ UNCHANGED <<parked, server, debug, blackout>>
    /\ UNCHANGED painter

\* a loop that asks a failed controller again
SetSegmentsSettlesRetrying(t) ==
    /\ pc = "awaitSegments"
    /\ LET key == inflight[1].controller
           result == ClientResult(key, t)
       IN  /\ results' = IF result.success THEN PutKey(results, key, result) ELSE results
           /\ errors' = errors
           /\ answered' = Append(answered, <<key, result, t>>)
           /\ idx' = IF result.success THEN idx + 1 ELSE idx
    /\ inflight' = <<>>
    /\ pc' = "loop"
    /\ UNCHANGED <<features, clients, caller, featureName, props, byController,
                   entries, sent, outcome, response>>
    /\ UNCHANGED <<op, input, history, recording>>
    /\ UNCHANGED <<parked, server, debug, trace, blackout>>
    /\ UNCHANGED painter

\* client.setSegments settles and the loop body finishes
SetSegmentsSettles(t) ==
    /\ pc = "awaitSegments"
    /\ LET key == inflight[1].controller
           result == ClientResult(key, t)
       IN  /\ results' = PutKey(results, key, result)
           /\ errors' = PushError(errors, key, result)
           /\ answered' = Append(answered, <<key, result, t>>)
    /\ idx' = idx + 1
    /\ inflight' = <<>>
    /\ pc' = "loop"
    /\ UNCHANGED <<features, clients, caller, featureName, props, byController,
                   entries, sent, outcome, response>>
    /\ UNCHANGED <<op, input, history, recording>>
    /\ UNCHANGED <<parked, server, debug, trace, blackout>>
    /\ UNCHANGED painter

\* client.setSegment settles and setFeature returns its result
SetSegmentSettles(t) ==
    /\ pc = "awaitSegment"
    /\ LET key == inflight[1].controller
           result == ClientResult(key, t)
       IN  /\ outcome' = Returned(result)
           /\ answered' = Append(answered, <<key, result, t>>)
    /\ inflight' = <<>>
    /\ pc' = "returned"
    /\ UNCHANGED <<features, clients, caller, featureName, props, byController,
                   entries, idx, results, errors, sent, response>>
    /\ UNCHANGED <<op, input, history, recording>>
    /\ UNCHANGED <<parked, server, debug, trace, blackout>>
    /\ UNCHANGED painter

\* the route answers after setFeature returned or threw
RouteResponds ==
    /\ pc \in {"returned", "thrown"}
    /\ caller = "route"
    /\ response' = << RouteResponse(featureName, props, features[featureName], outcome[1]) >>
    /\ pc' = "responded"
    /\ UNCHANGED <<features, clients, caller, featureName, props, byController,
                   entries, idx, results, errors, inflight, sent, answered, outcome>>
    /\ UNCHANGED <<op, input, history, recording>>
    /\ UNCHANGED <<parked, server, debug, trace, blackout>>
    /\ UNCHANGED painter

\* the invocation is over; the process serves the next one
Finish ==
    /\ \/ pc = "responded"
       \/ pc \in {"returned", "thrown"} /\ caller = "direct"
    /\ pc' = "idle"
    /\ caller' = "none"
    /\ featureName' = "none"
    /\ props' = <<>>
    /\ byController' = <<>>
    /\ entries' = <<>>
    /\ idx' = 1
    /\ results' = <<>>
    /\ errors' = <<>>
    /\ inflight' = <<>>
    /\ sent' = <<>>
    /\ answered' = <<>>
    /\ outcome' = <<>>
    /\ response' = <<>>
    /\ op' = "none"
    /\ input' = <<>>
    /\ history' = IF "requests" \in recording /\ op = "none" /\ input = <<>>
                  THEN history \cup { [name |-> featureName, props |-> props, sent |-> sent] }
                  ELSE history
    /\ UNCHANGED <<features, clients, recording>>
    /\ trace' = <<>>
    /\ blackout' = IF "failures" \in recording /\ op = "none" /\ input = <<>> /\ answered # <<>>
                        /\ \A i \in DOMAIN answered : ~answered[i][2].success
                    THEN TRUE
                    ELSE blackout
    /\ UNCHANGED <<parked, server, debug>>
    /\ UNCHANGED painter

Next ==
    \/ \E name \in RequestNames, p \in Payloads : PostFeature(name, p)
    \/ \E name \in RequestNames, p \in Payloads : CallSetFeature(name, p)
    \/ SetFeature
    \/ LoopStep
    \/ \E t \in TransportOutcomes : SetSegmentsSettles(t)
    \/ \E t \in TransportOutcomes : SetSegmentSettles(t)
    \/ RouteResponds
    \/ Finish

Spec == Init /\ [][Next]_vars

(***************************************************************************)
(* WLEDClient: the other operations.  An argument is a record: [on |-> v]  *)
(* for setPower, [bri |-> n] for setBrightness, [ps |-> n] for loadPreset, *)
(* [segmentId |-> n, props |-> p] for setSegment, [segments |-> list] for  *)
(* setSegments and the empty record for getState, getInfo and ping.        *)
(***************************************************************************)
ClientOps ==
    {"setSegment", "setSegments", "getState", "getInfo", "setPower",
     "setBrightness", "loadPreset", "ping"}

NoArg == <<>>

SegmentLists ==
    { <<>>, << [id |-> 0, fx |-> 9] >>, << [id |-> 1, fx |-> 0], [id |-> 0, pal |-> 2] >> }

BrightnessValues == {-10, -1, 0, 1, 128, 254, 255, 256, 300}

\* the arguments a caller may give to each client operation
ClientArgs(opname) ==
    CASE opname = "setSegment" ->
            { [segmentId |-> n, props |-> p] : n \in {0, 1}, p \in Payloads }
      [] opname = "setSegments" -> { [segments |-> l] : l \in SegmentLists }
      [] opname = "setPower" -> { [on |-> v] : v \in BOOLEAN }
      [] opname = "setBrightness" -> { [bri |-> b] : b \in BrightnessValues }
      [] opname = "loadPreset" -> { [ps |-> n] : n \in {1, 16} }
      [] OTHER -> { NoArg }

Min2(a, b) == IF a < b THEN a ELSE b
Max2(a, b) == IF a > b THEN a ELSE b

\* variant: only the upper limit is applied
ClampUpperOnly(bri) == Min2(255, bri)

\* Math.max(0, Math.min(255, bri))
Clamp(bri) == Max2(0, Min2(255, bri))

\* what each operation hands to axios: GET requests carry no body
ClientRequest(key, opname, arg) ==
    CASE opname = "setSegment" -> SetSegmentRequest(key, arg.segmentId, arg.props)
      [] opname = "setSegments" -> SetSegmentsRequest(key, arg.segments)
      [] opname = "getState" -> [controller |-> key, call |-> opname, path |-> "/json/state"]
      [] opname = "getInfo" -> [controller |-> key, call |-> opname, path |-> "/json/info"]
      [] opname = "ping" -> [controller |-> key, call |-> opname, path |-> "/json/info"]
      [] opname = "setPower" ->
            [controller |-> key, call |-> opname, path |-> "/json/state",
             body |-> [on |-> arg.on]]
      [] opname = "setBrightness" ->
            [controller |-> key, call |-> opname, path |-> "/json/state",
             body |-> [bri |-> Clamp(arg.bri)]]
      [] opname = "loadPreset" ->
            [controller |-> key, call |-> opname, path |-> "/json/state",
             body |-> [ps |-> arg.ps]]

\* the answers of GET /json/info carry the version and the device name
InfoData == { [ver |-> "0.14.0", name |-> "Pumpkin"] }

TransportOutcomesFor(opname) ==
    IF opname \in {"getInfo", "ping"}
    THEN { [ok |-> TRUE, data |-> d] : d \in InfoData }
             \cup { [ok |-> FALSE, message |-> m] : m \in TransportErrors }
    ELSE TransportOutcomes

\* variant: a failed probe still reads as online
PingResultAlwaysOnline(key, t) ==
    IF t.ok
    THEN [success |-> TRUE, online |-> TRUE, version |-> t.data.ver, name |-> t.data.name]
    ELSE [success |-> FALSE, online |-> TRUE, error |-> t.message,
          controller |-> ControllerName(key)]

\* the try/catch of ping
PingResult(key, t) ==
    IF t.ok
    THEN [success |-> TRUE, online |-> TRUE, version |-> t.data.ver, name |-> t.data.name]
    ELSE [success |-> FALSE, online |-> FALSE, error |-> t.message,
          controller |-> ControllerName(key)]

\* variant: a failed request leaves no entry text
OpResultBare(opname, key, t) ==
    IF t.ok THEN [success |-> TRUE, data |-> t.data] ELSE [success |-> FALSE]

\* the result of a client operation for a transport outcome
OpResult(opname, key, t) ==
    IF opname = "ping" THEN PingResult(key, t) ELSE ClientResult(key, t)

(***************************************************************************)
(* ControllerManager: the operations on every controller.                  *)
(***************************************************************************)
\* the order in which the configuration lists its controllers
ControllerOrder == <<"c1", "c2", "7">>

\* Object.entries(this.clients); the constructor fills this.clients in the
\* order of Object.entries(config.pumpkin.controllers)
ClientEntries ==
    ObjectEntries(ObjectEntries(
        [i \in 1..Len(ControllerOrder) |->
            <<ControllerOrder[i], ControllerName(ControllerOrder[i])>>]))

AllOps == {"getAllStates", "setAllPower", "setAllBrightness", "pingAll", "loadPresetAll"}

\* the client operation each of them calls
ClientOpOf(allOp) ==
    CASE allOp = "getAllStates" -> "getState"
      [] allOp = "setAllPower" -> "setPower"
      [] allOp = "setAllBrightness" -> "setBrightness"
      [] allOp = "pingAll" -> "ping"
      [] allOp = "loadPresetAll" -> "loadPreset"

AllArgs(allOp) == ClientArgs(ClientOpOf(allOp))

\* variant: the loop stops after the first failed controller
AllDoneFailFast(i, ents, res) ==
    i > Len(ents) \/ \E j \in DOMAIN res : ~res[j][2].success

\* the for-of loop over Object.entries(this.clients) has no entry left
AllDone(i, ents, res) == i > Len(ents)

(***************************************************************************)
(* The routes /state, /power, /brightness and /ping: pure parts.  A value  *)
(* of a request body is [type |-> "boolean", value |-> v],                 *)
(* [type |-> "number", num |-> n], [type |-> "string", chars |-> s] or     *)
(* [type |-> "undefined"] for an absent property.                          *)
(***************************************************************************)
Undefined == [type |-> "undefined"]
BooleanValue(v) == [type |-> "boolean", value |-> v]
NumberValue(n) == [type |-> "number", num |-> n]
StringValue(s) == [type |-> "string", chars |-> s]

PowerInputs ==
    { BooleanValue(v) : v \in BOOLEAN }
        \cup { Undefined, NumberValue(1), StringValue(<<"t", "r", "u", "e">>) }

BrightnessInputs ==
    { NumberValue(n) : n \in BrightnessValues }
        \cup { Undefined, BooleanValue(TRUE), StringValue(<<"1", "2", "8">>) }

\* typeof on !== 'boolean'
PowerRejected(on) == on.type # "boolean"

\* typeof brightness !== 'number' || brightness < 0 || brightness > 255
BrightnessRejected(brightness) ==
    \/ brightness.type # "number"
    \/ brightness.num < 0
    \/ brightness.num > 255

BadRequest(message) ==
    [status |-> 400, body |-> [success |-> FALSE, error |-> message]]

\* res.json(...) of the four routes
AllRouteResponse(allOp, arg, out) ==
    IF out.kind = "throw"
    THEN [status |-> 500, body |-> [success |-> FALSE, error |-> out.message]]
    ELSE CASE allOp = "setAllPower" ->
                [status |-> 200, body |-> [success |-> TRUE, results |-> out.value]]
           [] allOp = "setAllBrightness" ->
                [status |-> 200,
                 body |-> [success |-> TRUE, brightness |-> arg.bri, results |-> out.value]]
           [] OTHER -> [status |-> 200, body |-> out.value]

(***************************************************************************)
(* Actions of the client operations and of the operations on every         *)
(* controller.                                                             *)
(***************************************************************************)
\* a client operation called on one client, up to its await
CallClient(key, opname, arg) ==
    /\ pc = "idle"
    /\ caller' = "direct"
    /\ op' = opname
    /\ props' = arg
    /\ LET req == ClientRequest(key, opname, arg) IN
          /\ inflight' = << req >>
          /\ sent' = Append(sent, req)
    /\ pc' = "awaitClient"
    /\ UNCHANGED <<features, clients, featureName, byController, entries, idx,
                   results, errors, answered, outcome, response, input, history,
                   recording>>
    /\ trace' = IF sent' = sent THEN trace
                 ELSE trace \o ClientEvents(sent'[Len(sent')])
    /\ UNCHANGED <<parked, server, debug, blackout>>
    /\ UNCHANGED painter

\* the client operation settles and returns its result
ClientSettles ==
    /\ pc = "awaitClient"
    /\ \E t \in TransportOutcomesFor(op) :
       LET key == inflight[1].controller
           result == OpResult(op, key, t)
       IN  /\ outcome' = Returned(result)
           /\ answered' = Append(answered, <<key, result, t>>)
    /\ inflight' = <<>>
    /\ pc' = "returned"
    /\ UNCHANGED <<features, clients, caller, featureName, props, byController,
                   entries, idx, results, errors, sent, response, op, input,
                   history, recording>>
    /\ UNCHANGED <<parked, server, debug, trace, blackout>>
    /\ UNCHANGED painter

\* getAllStates, setAllPower, setAllBrightness, pingAll or loadPresetAll
\* called by other code
CallAll(allOp, arg) ==
    /\ pc = "idle"
    /\ caller' = "direct"
    /\ op' = allOp
    /\ props' = arg
    /\ entries' = ClientEntries
    /\ pc' = "allLoop"
    /\ UNCHANGED <<features, clients, featureName, byController, idx, results,
                   errors, inflight, sent, answered, outcome, response, input,
                   history, recording>>
    /\ UNCHANGED <<parked, server, debug, trace, blackout>>
    /\ UNCHANGED painter

\* router.get('/state') and router.get('/ping')
GetAll(allOp) ==
    /\ pc = "idle"
    /\ allOp \in {"getAllStates", "pingAll"}
    /\ caller' = "allRoute"
    /\ op' = allOp
    /\ props' = NoArg
    /\ entries' = ClientEntries
    /\ pc' = "allLoop"
    /\ UNCHANGED <<features, clients, featureName, byController, idx, results,
                   errors, inflight, sent, answered, outcome, response, input,
                   history, recording>>
    /\ UNCHANGED <<parked, server, debug, trace, blackout>>
    /\ UNCHANGED painter

\* router.post('/power') up to the call of setAllPower
PostPower(on) ==
    /\ pc = "idle"
    /\ caller' = "allRoute"
    /\ input' = << on >>
    /\ op' = "setAllPower"
    /\ IF PowerRejected(on)
       THEN /\ response' = << BadRequest(<<"on must be a boolean">>) >>
            /\ props' = NoArg
            /\ pc' = "responded"
            /\ UNCHANGED entries
       ELSE /\ props' = [on |-> on.value]
            /\ entries' = ClientEntries
            /\ pc' = "allLoop"
            /\ UNCHANGED response
    /\ UNCHANGED <<features, clients, featureName, byController, idx, results,
                   errors, inflight, sent, answered, outcome, history,
                   recording>>
    /\ UNCHANGED <<parked, server, debug, trace, blackout>>
    /\ UNCHANGED painter

\* router.post('/brightness') up to the call of setAllBrightness
PostBrightness(brightness) ==
    /\ pc = "idle"
    /\ caller' = "allRoute"
    /\ input' = << brightness >>
    /\ op' = "setAllBrightness"
    /\ IF BrightnessRejected(brightness)
       THEN /\ response' = << BadRequest(<<"brightness must be a number between 0 and 255">>) >>
            /\ props' = NoArg
            /\ pc' = "responded"
            /\ UNCHANGED entries
       ELSE /\ props' = [bri |-> brightness.num]
            /\ entries' = ClientEntries
            /\ pc' = "allLoop"
            /\ UNCHANGED response
    /\ UNCHANGED <<features, clients, featureName, byController, idx, results,
                   errors, inflight, sent, answered, outcome, history,
                   recording>>
    /\ UNCHANGED <<parked, server, debug, trace, blackout>>
    /\ UNCHANGED painter

\* one turn of the for-of loop over the clients up to its await, or the
\* return of the collected results
AllLoopStep ==
    /\ pc = "allLoop"
    /\ IF AllDone(idx, entries, results)
       THEN /\ outcome' = Returned(results)
            /\ pc' = "returned"
            /\ UNCHANGED <<inflight, sent>>
       ELSE LET req == ClientRequest(entries[idx][1], ClientOpOf(op), props) IN
            /\ inflight' = << req >>
            /\ sent' = Append(sent, req)
            /\ pc' = "awaitAll"
            /\ UNCHANGED outcome
    /\ UNCHANGED <<features, clients, caller, featureName, props, byController,
                   entries, idx, results, errors, answered, response, op, input,
                   history, recording>>
    /\ trace' = IF sent' = sent THEN trace
                 ELSE trace \o ClientEvents(sent'[Len(sent')])
    /\ UNCHANGED <<parked, server, debug, blackout>>
    /\ UNCHANGED painter

\* the client operation of the loop body settles
AllSettles ==
    /\ pc = "awaitAll"
    /\ \E t \in TransportOutcomesFor(ClientOpOf(op)) :
       LET key == inflight[1].controller
           result == OpResult(ClientOpOf(op), key, t)
       IN  /\ results' = PutKey(results, key, result)
           /\ answered' = Append(answered, <<key, result, t>>)
    /\ idx' = idx + 1
    /\ inflight' = <<>>
    /\ pc' = "allLoop"
    /\ UNCHANGED <<features, clients, caller, featureName, props, byController,
                   entries, errors, sent, outcome, response, op, input, history,
                   recording>>
    /\ UNCHANGED <<parked, server, debug, trace, blackout>>
    /\ UNCHANGED painter

\* the route answers with the collected results
AllRouteResponds ==
    /\ pc \in {"returned", "thrown"}
    /\ caller = "allRoute"
    /\ response' = << AllRouteResponse(op, props, outcome[1]) >>
    /\ pc' = "responded"
    /\ UNCHANGED <<features, clients, caller, featureName, props, byController,
                   entries, idx, results, errors, inflight, sent, answered,
                   outcome, op, input, history, recording>>
    /\ UNCHANGED <<parked, server, debug, trace, blackout>>
    /\ UNCHANGED painter

(***************************************************************************)
(* hexToRgb.  A string is a sequence of one-character strings; a number    *)
(* that parseInt produced is << n >> and NaN is << >>; the array [r, g, b] *)
(* is << r, g, b >> and null is << >>.                                     *)
(***************************************************************************)
MaxHexLen == 7

HexAlphabet == {"#", "1", "f", "g"}

HexStrings == SeqsUpTo(HexAlphabet, MaxHexLen)

NaN == <<>>
Null == <<>>

\* the value of a character as a digit of radix 16, -1 if it is none
HexValue(c) ==
    CASE c = "0" -> 0 [] c = "1" -> 1 [] c = "2" -> 2 [] c = "3" -> 3
      [] c = "4" -> 4 [] c = "5" -> 5 [] c = "6" -> 6 [] c = "7" -> 7
      [] c = "8" -> 8 [] c = "9" -> 9
      [] c \in {"a", "A"} -> 10 [] c \in {"b", "B"} -> 11
      [] c \in {"c", "C"} -> 12 [] c \in {"d", "D"} -> 13
      [] c \in {"e", "E"} -> 14 [] c \in {"f", "F"} -> 15
      [] OTHER -> -1

IsHexDigit(c) == HexValue(c) >= 0

RECURSIVE StripWhitespace(_)
StripWhitespace(s) ==
    IF s # <<>> /\ Head(s) = " " THEN StripWhitespace(Tail(s)) ELSE s

RECURSIVE DigitPrefix(_)
\* the longest prefix of s made of digits of radix 16
DigitPrefix(s) ==
    IF s # <<>> /\ IsHexDigit(Head(s)) THEN <<Head(s)>> \o DigitPrefix(Tail(s)) ELSE <<>>

RECURSIVE DigitsValue(_, _)
DigitsValue(s, acc) ==
    IF s = <<>> THEN acc ELSE DigitsValue(Tail(s), 16 * acc + HexValue(Head(s)))

\* variant: a string with a character that is no digit is not a number
ParseInt16Strict(s) ==
    IF s # <<>> /\ \A i \in DOMAIN s : IsHexDigit(s[i])
    THEN << DigitsValue(s, 0) >>
    ELSE NaN

\* parseInt(s, 16): leading white space, a sign and a 0x prefix are
\* skipped, then the longest prefix of digits is the number
ParseInt16(s) ==
    LET trimmed == StripWhitespace(s)
        signed == trimmed # <<>> /\ Head(trimmed) \in {"-", "+"}
        sign == IF trimmed # <<>> /\ Head(trimmed) = "-" THEN -1 ELSE 1
        unsigned == IF signed THEN Tail(trimmed) ELSE trimmed
        prefixed == /\ Len(unsigned) >= 2
                    /\ unsigned[1] = "0"
                    /\ unsigned[2] \in {"x", "X"}
        body == IF prefixed THEN Tail(Tail(unsigned)) ELSE unsigned
        digits == DigitPrefix(body)
    IN  IF digits = <<>> THEN NaN ELSE << sign * DigitsValue(digits, 0) >>

\* hex.replace(/^#/, '')
StripHash(hex) == IF hex # <<>> /\ Head(hex) = "#" THEN Tail(hex) ELSE hex

\* hex.split('').map(c => c + c).join('')
DoubleEach(hex) == [i \in 1..(2 * Len(hex)) |-> hex[(i + 1) \div 2]]

\* hexToRgb of a string
HexToRgb(chars) ==
    LET stripped == StripHash(chars)
        hex == IF Len(stripped) = 3 THEN DoubleEach(stripped) ELSE stripped
    IN  IF Len(hex) # 6 THEN Null
        ELSE LET r == ParseInt16(SubSeq(hex, 1, 2))
                 g == ParseInt16(SubSeq(hex, 3, 4))
                 b == ParseInt16(SubSeq(hex, 5, 6))
             IN  IF r = NaN \/ g = NaN \/ b = NaN THEN Null ELSE r \o g \o b

(***************************************************************************)
(* The route POST /api/feature/:featureName/color.                         *)
(***************************************************************************)
ColorInputs ==
    { StringValue(chars) : chars \in HexStrings }
        \cup { Undefined, NumberValue(0), NumberValue(123), BooleanValue(TRUE) }

\* !color
Falsy(v) ==
    \/ v.type = "undefined"
    \/ v.type = "string" /\ v.chars = <<>>
    \/ v.type = "number" /\ v.num = 0
    \/ v.type = "boolean" /\ ~v.value

\* hex.replace of a value that is no string
ReplaceTypeError == <<"hex.replace is not a function">>

ServerError(message) ==
    [status |-> 500, body |-> [success |-> FALSE, error |-> message]]

\* the solid effect with the colour
ColorProps(rgb) == [fx |-> 0, col |-> << rgb >>]

\* the route up to the call of setFeature
PostFeatureColor(name, c) ==
    /\ pc = "idle"
    /\ featureName' = name
    /\ input' = << c >>
    /\ caller' = "colorRoute"
    /\ IF Falsy(c)
       THEN /\ response' = << BadRequest(<<"Color is required">>) >>
            /\ pc' = "responded"
            /\ UNCHANGED props
       ELSE IF c.type # "string"
       THEN /\ response' = << ServerError(ReplaceTypeError) >>
            /\ pc' = "responded"
            /\ UNCHANGED props
       ELSE IF HexToRgb(c.chars) = Null
       THEN /\ response' = << BadRequest(<<"Invalid color format">>) >>
            /\ pc' = "responded"
            /\ UNCHANGED props
       ELSE IF ~RouteKnowsFeature(name)
       THEN /\ response' = << NotFoundResponse(name) >>
            /\ pc' = "responded"
            /\ UNCHANGED props
       ELSE /\ props' = ColorProps(HexToRgb(c.chars))
            /\ pc' = "setFeature"
            /\ UNCHANGED response
    /\ UNCHANGED <<features, clients, byController, entries, idx, results,
                   errors, inflight, sent, answered, outcome, op, history,
                   recording>>
    /\ UNCHANGED <<parked, server, debug, trace, blackout>>
    /\ UNCHANGED painter

\* res.json / res.status(500).json after setFeature returned or threw
ColorRouteResponse(name, c, out) ==
    IF out.kind = "throw"
    THEN ServerError(out.message)
    ELSE IF out.value.success
    THEN [status |-> 200,
          body |-> [success |-> TRUE, feature |-> name, color |-> c,
                    rgb |-> HexToRgb(c.chars)]]
    ELSE [status |-> 500, body |-> out.value]

ColorRouteResponds ==
    /\ pc \in {"returned", "thrown"}
    /\ caller = "colorRoute"
    /\ response' = << ColorRouteResponse(featureName, input[1], outcome[1]) >>
    /\ pc' = "responded"
    /\ UNCHANGED <<features, clients, caller, featureName, props, byController,
                   entries, idx, results, errors, inflight, sent, answered,
                   outcome, op, input, history, recording>>
    /\ UNCHANGED <<parked, server, debug, trace, blackout>>
    /\ UNCHANGED painter

(***************************************************************************)
(* The server with all its routes and operations, on one configuration.    *)
(***************************************************************************)
OpsConfiguration ==
    (SingleName :> [controller |-> "c2", segment |-> 1])
        @@ (MultiName :> [multiSegment |-> TRUE,
                          targets |-> << [controller |-> "c1", segment |-> 0],
                                         [controller |-> "7", segment |-> 0],
                                         [controller |-> "c1", segment |-> 1] >>])

InitOps ==
    /\ features = OpsConfiguration
    /\ clients = ControllerKeys
    /\ NoInvocation
    /\ history = {}
    /\ recording = {}
    /\ Serving
    /\ NoPage

NextOps ==
    \/ \E name \in RequestNames, p \in Payloads : PostFeature(name, p)
    \/ \E name \in RequestNames, p \in Payloads : CallSetFeature(name, p)
    \/ SetFeature
    \/ LoopStep
    \/ \E t \in TransportOutcomes : SetSegmentsSettles(t)
    \/ \E t \in TransportOutcomes : SetSegmentSettles(t)
    \/ RouteResponds
    \/ pc = "idle" /\ \E name \in RequestNames, c \in ColorInputs : PostFeatureColor(name, c)
    \/ ColorRouteResponds
    \/ \E key \in clients, opname \in ClientOps :
          \E arg \in ClientArgs(opname) : CallClient(key, opname, arg)
    \/ ClientSettles
    \/ \E allOp \in AllOps : \E arg \in AllArgs(allOp) : CallAll(allOp, arg)
    \/ \E allOp \in AllOps : GetAll(allOp)
    \/ \E on \in PowerInputs : PostPower(on)
    \/ \E brightness \in BrightnessInputs : PostBrightness(brightness)
    \/ AllLoopStep
    \/ AllSettles
    \/ AllRouteResponds
    \/ Finish

SpecOps == InitOps /\ [][NextOps]_vars

(***************************************************************************)
(* The dispatch engine serving one invocation after another, with the      *)
(* requests of every completed setFeature invocation kept.                 *)
(***************************************************************************)
InitRepeat ==
    /\ features = OpsConfiguration
    /\ clients = ControllerKeys
    /\ NoInvocation
    /\ history = {}
    /\ recording = {"requests"}
    /\ Serving
    /\ NoPage

SpecRepeat == InitRepeat /\ [][Next]_vars

(***************************************************************************)
(* Two invocations in one process.  JavaScript runs an invocation until    *)
(* it suspends at an await (here: await client.setSegment / setSegments)   *)
(* or ends; the event loop may then run or resume another one.  The        *)
(* variables pc .. input hold the locals of the invocation that runs;      *)
(* parked holds those of the suspended one.  features and clients belong   *)
(* to the ControllerManager and are shared.                                *)
(***************************************************************************)
Locals ==
    [pc |-> pc, caller |-> caller, featureName |-> featureName, props |-> props,
     byController |-> byController, entries |-> entries, idx |-> idx,
     results |-> results, errors |-> errors, inflight |-> inflight,
     sent |-> sent, answered |-> answered, outcome |-> outcome,
     response |-> response, op |-> op, input |-> input]

FreshLocals ==
    [pc |-> "idle", caller |-> "none", featureName |-> "none", props |-> <<>>,
     byController |-> <<>>, entries |-> <<>>, idx |-> 1,
     results |-> <<>>, errors |-> <<>>, inflight |-> <<>>,
     sent |-> <<>>, answered |-> <<>>, outcome |-> <<>>,
     response |-> <<>>, op |-> "none", input |-> <<>>]

AtAwait == pc \in {"awaitSegments", "awaitSegment"}

\* the results object kept on the manager instead of in the invocation
SwitchSharedResults ==
    /\ AtAwait \/ (pc = "idle" /\ parked # <<>>)
    /\ LET other == IF parked = <<>> THEN FreshLocals ELSE parked[1] IN
       /\ parked' = IF pc = "idle" THEN <<>> ELSE << Locals >>
       /\ pc' = other.pc
       /\ caller' = other.caller
       /\ featureName' = other.featureName
       /\ props' = other.props
       /\ byController' = other.byController
       /\ entries' = other.entries
       /\ idx' = other.idx
       /\ results' = results
       /\ errors' = other.errors
       /\ inflight' = other.inflight
       /\ sent' = other.sent
       /\ answered' = other.answered
       /\ outcome' = other.outcome
       /\ response' = other.response
       /\ op' = other.op
       /\ input' = other.input
    /\ UNCHANGED <<features, clients, history, recording>>
    /\ UNCHANGED <<server, debug, trace, blackout>>
    /\ UNCHANGED painter

\* the running invocation is suspended at its await (or there is none) and
\* the event loop resumes the suspended one or lets a new one start
Switch ==
    /\ AtAwait \/ (pc = "idle" /\ parked # <<>>)
    /\ LET other == IF parked = <<>> THEN FreshLocals ELSE parked[1] IN
       /\ parked' = IF pc = "idle" THEN <<>> ELSE << Locals >>
       /\ pc' = other.pc
       /\ caller' = other.caller
       /\ featureName' = other.featureName
       /\ props' = other.props
       /\ byController' = other.byController
       /\ entries' = other.entries
       /\ idx' = other.idx
       /\ results' = other.results
       /\ errors' = other.errors
       /\ inflight' = other.inflight
       /\ sent' = other.sent
       /\ answered' = other.answered
       /\ outcome' = other.outcome
       /\ response' = other.response
       /\ op' = other.op
       /\ input' = other.input
    /\ UNCHANGED <<features, clients, history, recording>>
    /\ UNCHANGED <<server, debug, trace, blackout>>
    /\ UNCHANGED painter

NextPair ==
    \/ \E name \in RequestNames, p \in Payloads : PostFeature(name, p)
    \/ \E name \in RequestNames, p \in Payloads : CallSetFeature(name, p)
    \/ SetFeature
    \/ LoopStep
    \/ \E t \in TransportOutcomes : SetSegmentsSettles(t)
    \/ \E t \in TransportOutcomes : SetSegmentSettles(t)
    \/ RouteResponds
    \/ \E allOp \in AllOps : \E arg \in AllArgs(allOp) : CallAll(allOp, arg)
    \/ AllLoopStep
    \/ AllSettles
    \/ Finish
    \/ Switch

SpecPair == InitOps /\ [][NextPair]_vars

(***************************************************************************)
(* The manager's operations called one after another, with progress.       *)
(* The JavaScript engine runs an invocation's synchronous code to its      *)
(* next await (weak fairness of SetFeature, LoopStep, AllLoopStep), and    *)
(* every axios call is made with timeout: this.timeout (5000 ms), so a     *)
(* pending client call settles, with an answer or with an error (weak      *)
(* fairness of the three settling steps).                                  *)
(***************************************************************************)
NextLive ==
    \/ \E name \in RequestNames, p \in Payloads : CallSetFeature(name, p)
    \/ SetFeature
    \/ LoopStep
    \/ \E t \in TransportOutcomes : SetSegmentsSettles(t)
    \/ \E t \in TransportOutcomes : SetSegmentSettles(t)
    \/ \E allOp \in AllOps : \E arg \in AllArgs(allOp) : CallAll(allOp, arg)
    \/ AllLoopStep
    \/ AllSettles
    \/ Finish

Progress ==
    /\ WF_vars(SetFeature)
    /\ WF_vars(LoopStep)
    /\ WF_vars(AllLoopStep)
    /\ WF_vars(\E t \in TransportOutcomes : SetSegmentsSettles(t))
    /\ WF_vars(\E t \in TransportOutcomes : SetSegmentSettles(t))
    /\ WF_vars(AllSettles)

SpecLive == InitOps /\ [][NextLive]_vars /\ Progress

(***************************************************************************)
(* The process from its start (src/src/server.js, startServer), with the   *)
(* configuration already loaded.  In hardware mode startServer awaits      *)
(* controllerManager.pingAll() before it installs the routes and listens;  *)
(* an exception anywhere in startServer ends the process (process.exit).   *)
(***************************************************************************)
InitServer ==
    /\ features = OpsConfiguration
    /\ clients = ControllerKeys
    /\ NoInvocation
    /\ history = {}
    /\ recording = {"failures"}
    /\ parked = <<>>
    /\ server = "starting"
    /\ debug = TRUE
    /\ trace = <<>>
    /\ blackout = FALSE
    /\ NoPage

\* startServer up to its await of pingAll (hardware mode) or, with
\* --use-simulator, to app.listen
StartServer(useSimulator) ==
    /\ server = "starting"
    /\ debug' = ~useSimulator
    /\ IF useSimulator
       THEN /\ server' = "listening"
            /\ UNCHANGED <<pc, caller, op, props, entries>>
       ELSE /\ server' = "probing"
            /\ caller' = "startup"
            /\ op' = "pingAll"
            /\ props' = NoArg
            /\ entries' = ClientEntries
            /\ pc' = "allLoop"
    /\ UNCHANGED <<features, clients, featureName, byController, idx, results,
                   errors, inflight, sent, answered, outcome, response, input,
                   history, recording>>
    /\ UNCHANGED <<parked, trace, blackout>>
    /\ UNCHANGED painter

\* a start that gives up when no controller answered the probe
ListenOnlyIfOnline ==
    /\ server = "probing"
    /\ caller = "startup"
    /\ pc \in {"returned", "thrown"}
    /\ server' = IF outcome[1].kind = "throw"
                     \/ \A i \in DOMAIN outcome[1].value : ~outcome[1].value[i][2].online
                  THEN "exited"
                  ELSE "listening"
    /\ pc' = "idle"
    /\ caller' = "none"
    /\ op' = "none"
    /\ props' = <<>>
    /\ entries' = <<>>
    /\ idx' = 1
    /\ results' = <<>>
    /\ inflight' = <<>>
    /\ sent' = <<>>
    /\ answered' = <<>>
    /\ outcome' = <<>>
    /\ trace' = <<>>
    /\ UNCHANGED <<features, clients, featureName, byController, errors,
                   response, input, history, recording>>
    /\ UNCHANGED <<parked, debug, blackout>>
    /\ UNCHANGED painter

\* startServer after pingAll: the per-controller lines are printed, then
\* setupRoutes and app.listen; the catch block calls process.exit(1)
Listen ==
    /\ server = "probing"
    /\ caller = "startup"
    /\ pc \in {"returned", "thrown"}
    /\ server' = IF outcome[1].kind = "throw" THEN "exited" ELSE "listening"
    /\ pc' = "idle"
    /\ caller' = "none"
    /\ op' = "none"
    /\ props' = <<>>
    /\ entries' = <<>>
    /\ idx' = 1
    /\ results' = <<>>
    /\ inflight' = <<>>
    /\ sent' = <<>>
    /\ answered' = <<>>
    /\ outcome' = <<>>
    /\ trace' = <<>>
    /\ UNCHANGED <<features, clients, featureName, byController, errors,
                   response, input, history, recording>>
    /\ UNCHANGED <<parked, debug, blackout>>
    /\ UNCHANGED painter

NextServer ==
    \/ \E useSimulator \in BOOLEAN : StartServer(useSimulator)
    \/ Listen
    \/ server = "listening" /\ \E name \in RequestNames, p \in Payloads : PostFeature(name, p)
    \/ SetFeature
    \/ LoopStep
    \/ \E t \in TransportOutcomes : SetSegmentsSettles(t)
    \/ \E t \in TransportOutcomes : SetSegmentSettles(t)
    \/ RouteResponds
    \/ server = "listening" /\ \E allOp \in AllOps : GetAll(allOp)
    \/ AllLoopStep
    \/ AllSettles
    \/ AllRouteResponds
    \/ Finish

\* the engine runs every invocation to its next await, every client call
\* settles (axios timeout), and a route whose dispatch is over answers
ProgressServer ==
    /\ Progress
    /\ WF_vars(Listen)
    /\ WF_vars(RouteResponds)

SpecServer == InitServer /\ [][NextServer]_vars /\ ProgressServer

(***************************************************************************)
(* The page: class PumpkinPainter of public/js/pumpkin.js, its             *)
(* screensaver, its timers and its idle cycle.  A timer handle held in a   *)
(* field is "null", the token of a pending timer, or "stale" (the timer    *)
(* fired or was cleared and the field still holds its id).  The methods    *)
(* are functions from the object's state to its next state.  The random    *)
(* effect, palette, speed and intensity of an idle command are not         *)
(* modelled: a command is [by, feature, kind, col], kind "effectPalette"   *)
(* for applyEffectPalette and "solid" (fx 0, col) for resetToPreset.       *)
(***************************************************************************)
This ==
    [painterPc |-> painterPc, screensaverHidden |-> screensaverHidden,
     screensaverActive |-> screensaverActive,
     shouldResetOnNextTap |-> shouldResetOnNextTap,
     inactivityTimeout |-> inactivityTimeout, resetTimeout |-> resetTimeout,
     idleStartTimeout |-> idleStartTimeout, idleInterval |-> idleInterval,
     orphans |-> orphans, cycles |-> cycles, issued |-> issued,
     activeLong |-> activeLong]

Becomes(p) ==
    /\ painterPc' = p.painterPc
    /\ screensaverHidden' = p.screensaverHidden
    /\ screensaverActive' = p.screensaverActive
    /\ shouldResetOnNextTap' = p.shouldResetOnNextTap
    /\ inactivityTimeout' = p.inactivityTimeout
    /\ resetTimeout' = p.resetTimeout
    /\ idleStartTimeout' = p.idleStartTimeout
    /\ idleInterval' = p.idleInterval
    /\ orphans' = p.orphans
    /\ cycles' = p.cycles
    /\ issued' = p.issued
    /\ activeLong' = p.activeLong
    /\ UNCHANGED <<page, debounced, admin, simulation>>

backend ==
    <<features, clients, pc, caller, featureName, props, byController,
      entries, idx, results, errors, inflight, sent, answered, outcome,
      response, op, input, history, recording, parked, server, debug,
      trace, blackout>>

Pending(handle) == handle \notin {"null", "stale"}
Truthy(handle) == handle # "null"

\* this[k] = setTimeout(...) / setInterval(...); a pending timer whose id
\* is overwritten stays pending with no reference to it
Armed(p, k, token) ==
    [p EXCEPT ![k] = token,
              !.orphans = IF Pending(p[k]) THEN [@ EXCEPT ![k] = @ + 1] ELSE @]

\* if (this[k]) clearTimeout(this[k])
Cleared(p, k) == [p EXCEPT ![k] = IF Pending(@) THEN "stale" ELSE @]

\* if (this[k]) { clearTimeout(this[k]); this[k] = null; }
ClearedAndNulled(p, k) == [p EXCEPT ![k] = "null"]

\* successive inactivity timers are told apart
NextToken(handle) == IF handle = "a" THEN "b" ELSE "a"

\* a resetInactivityTimer that does not clear the timer it replaces
ResetInactivityTimerNoClear(p) ==
    Armed(p, "inactivityTimeout", NextToken(p.inactivityTimeout))

ResetInactivityTimer(p) ==
    Armed(Cleared(p, "inactivityTimeout"), "inactivityTimeout",
          NextToken(p.inactivityTimeout))

StartIdleTimers(p) ==
    Armed(ClearedAndNulled(Cleared(p, "idleStartTimeout"), "idleInterval"),
          "idleStartTimeout", "pending")

\* a clearIdleTimers that forgets the repeat interval
ClearIdleTimersStartOnly(p) == ClearedAndNulled(p, "idleStartTimeout")

ClearIdleTimers(p) ==
    ClearedAndNulled(ClearedAndNulled(p, "idleStartTimeout"), "idleInterval")

ShowScreensaver(p) ==
    LET shown == [p EXCEPT !.screensaverHidden = FALSE,
                           !.screensaverActive = TRUE,
                           !.issued = {},
                           !.activeLong = FALSE]
    IN  StartIdleTimers(
            Armed(ClearedAndNulled(shown, "inactivityTimeout"),
                  "resetTimeout", "pending"))

HideScreensaver(p) ==
    LET hidden == [p EXCEPT !.screensaverHidden = TRUE,
                            !.screensaverActive = FALSE,
                            !.activeLong = FALSE]
        quiet == ClearIdleTimers(ClearedAndNulled(hidden, "resetTimeout"))
    IN  ResetInactivityTimer([quiet EXCEPT !.shouldResetOnNextTap = FALSE])

\* hexToRgb of the page: /^#?([a-f\d]{2})([a-f\d]{2})([a-f\d]{2})$/i
PageHexToRgb(hex) ==
    LET body == StripHash(hex) IN
    IF Len(body) = 6 /\ \A i \in 1..6 : IsHexDigit(body[i])
    THEN << << DigitsValue(SubSeq(body, 1, 2), 0),
               DigitsValue(SubSeq(body, 3, 4), 0),
               DigitsValue(SubSeq(body, 5, 6), 0) >> >>
    ELSE Null

SoftOrange == << "#", "F", "F", "8", "8", "0", "0" >>

Command(by, feature) == [by |-> by, feature |-> feature, kind |-> "effectPalette", col |-> <<>>]

\* resetToPreset up to its await of api.setFeature
ResetToPreset(p, by) ==
    LET rgb == PageHexToRgb(SoftOrange) IN
    IF rgb = Null THEN p
    ELSE [p EXCEPT !.issued = @ \cup { [by |-> by, feature |-> "wholePumpkin",
                                         kind |-> "solid", col |-> rgb[1]] }]

(***************************************************************************)
(* runIdleCycle.  A suspended invocation is at one of these positions:     *)
(* "whole" (awaiting the wholePumpkin command), "face", "filler", "shell"  *)
(* (the three awaits of the grouped mode) or "regions" (awaiting the six   *)
(* commands of the same-effect mode).  cycles counts the invocations       *)
(* suspended at each position.                                             *)
(***************************************************************************)
IdleModes == {"none", "whole", "grouped", "regions"}

RECURSIVE SumOver(_, _)
SumOver(f, S) ==
    IF S = {} THEN 0
    ELSE LET x == CHOOSE y \in S : TRUE IN f[x] + SumOver(f, S \ {x})

Suspended(p) == SumOver(p.cycles, CyclePositions)

\* the applyEffectPalette calls made on entering a position
CommandsAt(position) ==
    CASE position = "whole" -> { Command("idle", "wholePumpkin") }
      [] position = "face" -> { Command("idle", f) : f \in {"bothEyes", "nose", "mouth"} }
      [] position = "filler" -> { Command("idle", "innerFiller") }
      [] position = "shell" -> { Command("idle", f) : f \in {"pumpkinShell", "bothRims"} }
      [] position = "regions" ->
            { Command("idle", f) : f \in {"bothEyes", "nose", "mouth", "innerFiller",
                                          "pumpkinShell", "bothRims"} }

FirstPosition(mode) ==
    CASE mode = "whole" -> "whole"
      [] mode = "grouped" -> "face"
      [] mode = "regions" -> "regions"

\* the position after the await ends, "done" when the invocation returns
NextPosition(position) ==
    CASE position = "face" -> "filler"
      [] position = "filler" -> "shell"
      [] OTHER -> "done"

Enter(p, position) ==
    [p EXCEPT !.issued = @ \cup CommandsAt(position),
              !.cycles = [@ EXCEPT ![position] = @ + 1]]

\* runIdleCycle from the end of an await to the next one or to its return
Resume(p, position) ==
    LET left == [p EXCEPT !.cycles = [@ EXCEPT ![position] = @ - 1]] IN
    IF NextPosition(position) = "done" THEN left
    ELSE Enter(left, NextPosition(position))

\* runIdleCycle up to its first await; mode "none": the pools are empty
RunIdleCycle(p, mode) ==
    IF ~p.screensaverActive \/ mode = "none" THEN p
    ELSE Enter(p, FirstPosition(mode))

(***************************************************************************)
(* The events of the page.  The screensaver covers the page while it is    *)
(* visible: a tap lands on it, and the controls under it are reached only  *)
(* while it carries the class 'hidden'.  Whether the element starts with   *)
(* that class is decided by the HTML, so both cases are initial states.    *)
(***************************************************************************)
MaxCycles == 2

InitPainter ==
    /\ features = OpsConfiguration
    /\ clients = ControllerKeys
    /\ NoInvocation
    /\ history = {}
    /\ recording = {}
    /\ Serving
    /\ PainterConstructed

\* init(): api.getConfig() answered; the listeners are installed and, with
\* the screensaver visible, the idle timers are started
InitDone ==
    /\ painterPc = "loading"
    /\ LET ready == [This EXCEPT !.painterPc = "ready"] IN
       Becomes(IF ready.screensaverActive /\ ~ready.screensaverHidden
               THEN StartIdleTimers(ready)
               ELSE ready)
    /\ UNCHANGED backend

\* init(): api.getConfig() failed; nothing is installed
InitFails ==
    /\ painterPc = "loading"
    /\ Becomes([This EXCEPT !.painterPc = "failed"])
    /\ UNCHANGED backend

\* the click listener of #screensaver (the document listeners see the same
\* event and ignore it: its target is inside #screensaver)
TapScreensaver ==
    /\ painterPc = "ready"
    /\ ~screensaverHidden
    /\ LET tapped == [This EXCEPT !.issued = {}]
           reset == IF tapped.shouldResetOnNextTap
                    THEN [ResetToPreset(tapped, "tap") EXCEPT !.shouldResetOnNextTap = FALSE]
                    ELSE tapped
       IN  Becomes(ResetInactivityTimer(HideScreensaver(reset)))
    /\ UNCHANGED backend

\* mousedown, touchstart or click on the page outside the screensaver
UserActivity ==
    /\ painterPc = "ready"
    /\ screensaverHidden
    /\ Becomes(IF ~screensaverActive THEN ResetInactivityTimer(This) ELSE This)
    /\ UNCHANGED backend

\* click on #resetBtn: resetToPreset(), then the document's click listener
ClickReset ==
    /\ painterPc = "ready"
    /\ screensaverHidden
    /\ LET reset == ResetToPreset(This, "button") IN
       Becomes(IF ~screensaverActive THEN ResetInactivityTimer(reset) ELSE reset)
    /\ UNCHANGED backend

\* the inactivity timer with this token fires: showScreensaver()
InactivityFires(token) ==
    /\ inactivityTimeout = token
    /\ Pending(token)
    /\ Becomes(ShowScreensaver([This EXCEPT !.inactivityTimeout = "stale"]))
    /\ UNCHANGED backend

\* resetDelay has passed since the screensaver became active; the reset
\* timer, started at the same moment with the same delay, fires if there
\* is one
ResetDelayElapses ==
    /\ screensaverActive
    /\ ~screensaverHidden
    /\ ~activeLong
    /\ Becomes(IF Pending(resetTimeout)
               THEN [This EXCEPT !.activeLong = TRUE,
                                 !.resetTimeout = "stale",
                                 !.shouldResetOnNextTap = TRUE]
               ELSE [This EXCEPT !.activeLong = TRUE])
    /\ UNCHANGED backend

\* the idle start timer fires: runIdleCycle(), then setInterval
IdleStartFires(mode) ==
    /\ Pending(idleStartTimeout)
    /\ Suspended(This) < MaxCycles
    /\ Becomes(Armed(RunIdleCycle([This EXCEPT !.idleStartTimeout = "stale"], mode),
                     "idleInterval", "pending"))
    /\ UNCHANGED backend

\* the repeat interval fires: runIdleCycle()
IdleIntervalFires(mode) ==
    /\ Pending(idleInterval)
    /\ Suspended(This) < MaxCycles
    /\ Becomes(RunIdleCycle(This, mode))
    /\ UNCHANGED backend

\* every api.setFeature a suspended idle cycle awaits has settled (an
\* error is caught inside applyEffectPalette) and the cycle goes on
CycleResumes(position) ==
    /\ cycles[position] > 0
    /\ Becomes(Resume(This, position))
    /\ UNCHANGED backend

NextPainter ==
    \/ InitDone
    \/ InitFails
    \/ TapScreensaver
    \/ UserActivity
    \/ ClickReset
    \/ \E token \in {"a", "b"} : InactivityFires(token)
    \/ ResetDelayElapses
    \/ \E mode \in IdleModes : IdleStartFires(mode)
    \/ \E mode \in IdleModes : IdleIntervalFires(mode)
    \/ \E position \in CyclePositions : CycleResumes(position)

SpecPainter == InitPainter /\ [][NextPainter]_vars

(***************************************************************************)
(* The page with its timers running: a pending inactivity timeout that is  *)
(* not cleared fires when its delay has passed.  The fairness is per       *)
(* timer (token), so a timer that user activity keeps replacing need not   *)
(* fire.                                                                   *)
(***************************************************************************)
TimersRun ==
    /\ WF_vars(InactivityFires("a"))
    /\ WF_vars(InactivityFires("b"))

SpecPainterFair == InitPainter /\ [][NextPainter]_vars /\ TimersRun

(***************************************************************************)
(* Vocabulary of the properties.                                           *)
(***************************************************************************)
\* the invocation in progress went through setMultipleTargets
InMultiTargets ==
    /\ pc \in {"loop", "awaitSegments", "returned", "thrown", "responded"}
    /\ featureName \in DOMAIN features
    /\ "targets" \in DOMAIN features[featureName]
    /\ features[featureName].multiSegment = TRUE

InvocationTargets == features[featureName].targets

TargetControllers == { InvocationTargets[i].controller : i \in DOMAIN InvocationTargets }
ContactedControllers == { sent[i].controller : i \in DOMAIN sent }
SentTo(c) == SelectSeq(sent, LAMBDA r : r.controller = c)

\* setFeature has returned a value to its caller
HasReturned == outcome # <<>> /\ outcome[1].kind = "return"
HasThrown == outcome # <<>> /\ outcome[1].kind = "throw"
ReturnedValue == outcome[1].value

AnsweredFailure == \E i \in DOMAIN answered : ~answered[i][2].success
AnsweredSuccess == \E i \in DOMAIN answered : answered[i][2].success

RECURSIVE SumOfLengths(_)
SumOfLengths(lists) ==
    IF lists = <<>> THEN 0 ELSE Len(Head(lists)) + SumOfLengths(Tail(lists))

\* {id: segment, ...p}
ExpectedEntry(segment, p) ==
    [k \in {"id"} \cup DOMAIN p |-> IF k \in DOMAIN p THEN p[k] ELSE segment]

\* the targets of controller c, in target-list order, as segment entries
ExpectedSegments(ts, c, p) ==
    LET own == SelectSeq(ts, LAMBDA t : t.controller = c)
    IN  [i \in 1..Len(own) |-> ExpectedEntry(own[i].segment, p)]

RECURSIVE ExpectedErrorText(_)
\* '<key>: <message>' of the failed answers, in the order they were given,
\* joined by '; '
ExpectedErrorText(ans) ==
    IF ans = <<>> THEN <<>>
    ELSE LET key == Head(ans)[1]
             result == Head(ans)[2]
             rest == ExpectedErrorText(Tail(ans))
         IN  IF result.success THEN rest
             ELSE IF rest = <<>> THEN <<key, ": ">> \o result.error
             ELSE <<key, ": ">> \o result.error \o <<"; ">> \o rest

C2_BatchIsTargetSubsequence ==
    InMultiTargets =>
        /\ \A i \in DOMAIN sent :
              sent[i].body.seg = ExpectedSegments(InvocationTargets, sent[i].controller, props)
        /\ \A c \in TargetControllers :
              /\ HasKey(byController, c)
              /\ GetKey(byController, c) = ExpectedSegments(InvocationTargets, c, props)
        /\ SumOfLengths([i \in DOMAIN byController |-> byController[i][2]])
              = Len(InvocationTargets)
        /\ HasReturned =>
              SumOfLengths([i \in DOMAIN sent |-> sent[i].body.seg]) = Len(InvocationTargets)

\* targets of two controllers interleaved: c, d, c with different segments
C2_Witness ==
    /\ InMultiTargets
    /\ HasReturned
    /\ Len(InvocationTargets) = 3
    /\ InvocationTargets[1].controller = InvocationTargets[3].controller
    /\ InvocationTargets[1].controller # InvocationTargets[2].controller
    /\ InvocationTargets[1].segment # InvocationTargets[3].segment
    /\ Len(sent) = 2

(***************************************************************************)
(* C3: when a contacted controller failed, the returned result has         *)
(* success = false and its results map holds, for every contacted          *)
(* controller, exactly the result its client gave.                         *)
(***************************************************************************)
C3_FailureKeepsEveryResult ==
    (InMultiTargets /\ HasReturned /\ AnsweredFailure) =>
        /\ ReturnedValue.success = FALSE
        /\ "results" \in DOMAIN ReturnedValue
        /\ Len(ReturnedValue.results) = Len(answered)
        /\ \A i \in DOMAIN answered :
              /\ HasKey(ReturnedValue.results, answered[i][1])
              /\ GetKey(ReturnedValue.results, answered[i][1]) = answered[i][2]
        /\ { answered[i][1] : i \in DOMAIN answered } = ContactedControllers

\* a partial failure: one controller succeeded, another failed
C3_Witness ==
    /\ InMultiTargets
    /\ HasReturned
    /\ AnsweredFailure
    /\ AnsweredSuccess

(***************************************************************************)
(* C4: when every target references a configured controller, the           *)
(* invocation does not throw and, when it returns, every distinct          *)
(* controller of the target list has been sent its request, whatever the   *)
(* earlier controllers answered.                                           *)
(***************************************************************************)
AllTargetsConfigured ==
    \A i \in DOMAIN InvocationTargets : InvocationTargets[i].controller \in clients

C4_EveryControllerContacted ==
    (InMultiTargets /\ AllTargetsConfigured) =>
        /\ ~HasThrown
        /\ HasReturned => ContactedControllers = TargetControllers

\* three controllers, each of them failed
C4_Witness ==
    /\ InMultiTargets
    /\ AllTargetsConfigured
    /\ HasReturned
    /\ Len(answered) = 3
    /\ \A i \in DOMAIN answered : ~answered[i][2].success

(***************************************************************************)
(* C5: a multi-target setFeature returns success = true exactly when       *)
(* every contacted controller's result is a success, and then data holds   *)
(* one entry per distinct controller of the target list, its result.       *)
(***************************************************************************)
C5_SuccessIffAllSucceeded ==
    (InMultiTargets /\ HasReturned) =>
        /\ ReturnedValue.success = TRUE <=> ~AnsweredFailure
        /\ ReturnedValue.success = TRUE =>
              /\ "data" \in DOMAIN ReturnedValue
              /\ Len(ReturnedValue.data) = Cardinality(TargetControllers)
              /\ \A c \in TargetControllers : HasKey(ReturnedValue.data, c)
              /\ \A i \in DOMAIN answered :
                    GetKey(ReturnedValue.data, answered[i][1]) = answered[i][2]

\* a success over two controllers reached from three targets
C5_Witness ==
    /\ InMultiTargets
    /\ HasReturned
    /\ ReturnedValue.success = TRUE
    /\ Len(InvocationTargets) = 3
    /\ Cardinality(TargetControllers) = 2

(***************************************************************************)
(* C6: in a failed multi-target setFeature the error string is the list    *)
(* of '<controllerKey>: <message>' items of exactly the failed             *)
(* controllers, joined by '; ' in the order the controllers were           *)
(* contacted; no successful controller's key is part of it.                *)
(***************************************************************************)
C6_ErrorListsFailedInOrder ==
    (InMultiTargets /\ HasReturned /\ ReturnedValue.success = FALSE) =>
        /\ [i \in DOMAIN answered |-> answered[i][1]] = [i \in DOMAIN sent |-> sent[i].controller]
        /\ ReturnedValue.error = ExpectedErrorText(answered)
        /\ \A i \in DOMAIN answered :
              answered[i][2].success =>
                  \A j \in DOMAIN ReturnedValue.error : ReturnedValue.error[j] # answered[i][1]

\* failure, success, failure over three controllers with different messages
C6_Witness ==
    /\ InMultiTargets
    /\ HasReturned
    /\ Len(answered) = 3
    /\ ~answered[1][2].success
    /\ answered[2][2].success
    /\ ~answered[3][2].success
    /\ answered[1][2].error # answered[3][2].error

(***************************************************************************)
(* C7: however a setFeature invocation ends, the result of every           *)
(* controller that was sent a request is part of what the caller           *)
(* receives.                                                               *)
(***************************************************************************)
\* what the caller received holds this controller's result
OutcomeCarries(key, result) ==
    /\ HasReturned
    /\ IF InMultiTargets
       THEN LET map == IF ReturnedValue.success THEN ReturnedValue.data
                       ELSE ReturnedValue.results
            IN  HasKey(map, key) /\ GetKey(map, key) = result
       ELSE ReturnedValue = result

C7_NoOutcomeDropped ==
    (HasReturned \/ HasThrown) =>
        \A i \in DOMAIN answered : OutcomeCarries(answered[i][1], answered[i][2])

ReferencedKeys ==
    IF "targets" \in DOMAIN features[featureName]
    THEN { features[featureName].targets[i].controller :
               i \in DOMAIN features[featureName].targets }
    ELSE { features[featureName].controller }

MissingKeys == ReferencedKeys \ clients

C9_MissingControllerNoCalls ==
    (pc \notin {"idle", "setFeature"} /\ featureName \in DOMAIN features
        /\ MissingKeys # {}) =>
        /\ sent = <<>>
        /\ ~HasReturned
        /\ HasThrown =>
              \E k \in MissingKeys :
                  outcome[1].message = <<"Controller '", k, "' not found">>

(***************************************************************************)
(* C10: POST /api/feature/:featureName answers every resolution error      *)
(* with HTTP 404: a feature name that is not configured, and a feature     *)
(* that references a controller key absent from the controller set.        *)
(***************************************************************************)
C10_ResolutionErrorIs404 ==
    (pc = "responded" /\ (featureName \notin DOMAIN features \/ HasThrown)) =>
        response[1].status = 404

(***************************************************************************)
(* Vocabulary of the properties about the client operations and the        *)
(* operations on every controller.                                         *)
(***************************************************************************)
\* the result a caller expects from every operation except ping
UniformResult(key, t) ==
    IF t.ok
    THEN [success |-> TRUE, data |-> t.data]
    ELSE [success |-> FALSE, error |-> t.message, controller |-> ControllerName(key)]

\* the reduced result of ping
ReducedResult(key, t) ==
    IF t.ok
    THEN [success |-> TRUE, online |-> TRUE, version |-> t.data.ver, name |-> t.data.name]
    ELSE [success |-> FALSE, online |-> FALSE, error |-> t.message,
          controller |-> ControllerName(key)]

\* a client operation called on one client has settled
ClientOpSettled == op \in ClientOps /\ pc = "returned"

ResultKeys == { results[i][1] : i \in DOMAIN results }

\* no controller was handed two requests
NoRepeatedController ==
    \A i, j \in DOMAIN sent : sent[i].controller = sent[j].controller => i = j

\* every answer so far stands unchanged under its controller's key
EveryAnswerKept ==
    /\ Len(results) = Len(answered)
    /\ \A i \in DOMAIN answered :
          /\ HasKey(results, answered[i][1])
          /\ GetKey(results, answered[i][1]) = answered[i][2]

(***************************************************************************)
(* C11: every operation of the controller client returns a structured      *)
(* result for every transport outcome and none throws to its caller:       *)
(* setSegment, setSegments, getState, getInfo, setPower, setBrightness     *)
(* and loadPreset return {success:true, data} on a 2xx response and        *)
(* {success:false, error, controller} on a timeout, a connection failure   *)
(* or a non-2xx response; ping returns {success:true, online:true,         *)
(* version, name} and {success:false, online:false, error, controller}.    *)
(***************************************************************************)
C11_StructuredResultNeverThrows ==
    /\ op \in ClientOps => ~HasThrown
    /\ ClientOpSettled =>
          /\ HasReturned
          /\ Len(answered) = 1
          /\ answered[1][1] = sent[1].controller
          /\ ReturnedValue.success = answered[1][3].ok
          /\ ReturnedValue = IF op = "ping"
                             THEN ReducedResult(answered[1][1], answered[1][3])
                             ELSE UniformResult(answered[1][1], answered[1][3])

\* a ping whose request failed has returned
C11_Witness ==
    /\ ClientOpSettled
    /\ op = "ping"
    /\ ~answered[1][3].ok
    /\ ReturnedValue.controller = ControllerName("c2")

\* the statement with {success, data} for all eight operations
C11_SameShapeForAllEight ==
    ClientOpSettled =>
        /\ HasReturned
        /\ ReturnedValue = UniformResult(answered[1][1], answered[1][3])

C13_AllOpsReachEveryController ==
    op \in AllOps \ {"pingAll"} =>
        /\ ~HasThrown
        /\ NoRepeatedController
        /\ \A i \in DOMAIN sent :
              /\ sent[i].controller \in clients
              /\ sent[i] = ClientRequest(sent[i].controller, ClientOpOf(op), props)
        /\ EveryAnswerKept
        /\ \A i \in DOMAIN answered :
              answered[i][2] = UniformResult(answered[i][1], answered[i][3])
        /\ HasReturned =>
              /\ ReturnedValue = results
              /\ ResultKeys = clients
              /\ Len(results) = Cardinality(clients)
              /\ ContactedControllers = clients
              /\ Len(sent) = Cardinality(clients)

\* setAllBrightness has returned after the first controller failed
C13_Witness ==
    /\ op = "setAllBrightness"
    /\ HasReturned
    /\ ~answered[1][2].success
    /\ answered[2][2].success
    /\ answered[3][2].success

(***************************************************************************)
(* C14: POST /api/feature/:featureName for a configured feature answers    *)
(* HTTP 200 with {success:true, feature, applied: <request body>} if and   *)
(* only if the dispatch result has success = true; whenever a targeted     *)
(* controller failed it answers HTTP 500 carrying the dispatch failure     *)
(* result: the error text and, for a multi-target feature, the results of  *)
(* every controller.                                                       *)
(***************************************************************************)
\* the route has answered a request for a configured feature
FeatureRouteAnswered ==
    /\ pc = "responded"
    /\ caller = "route"
    /\ featureName \in DOMAIN features

AnsweredOk ==
    /\ response[1].status = 200
    /\ response[1].body.success
    /\ response[1].body.feature = featureName
    /\ response[1].body.applied = props

C14_RouteCarriesDispatchResult ==
    FeatureRouteAnswered =>
        /\ AnsweredOk <=> (HasReturned /\ ReturnedValue.success)
        /\ AnsweredFailure =>
              /\ response[1].status = 500
              /\ "error" \in DOMAIN response[1].body
              /\ response[1].body.error =
                    IF InMultiTargets THEN ExpectedErrorText(answered)
                    ELSE answered[1][2].error
              /\ InMultiTargets =>
                    /\ "results" \in DOMAIN response[1].body
                    /\ \A i \in DOMAIN answered :
                          /\ HasKey(response[1].body.results, answered[i][1])
                          /\ GetKey(response[1].body.results, answered[i][1]) = answered[i][2]

(***************************************************************************)
(* C15: a request that fails input validation at the HTTP edge (POST       *)
(* /api/power with a non-boolean on, POST /api/brightness with a           *)
(* non-number or a value outside 0..255, POST /api/feature/:name/color     *)
(* with a missing or malformed color) is answered with HTTP 400 and causes *)
(* no call to any controller client.                                       *)
(***************************************************************************)
\* 3 or 6 hexadecimal digits after one leading '#' is removed
WellFormedHex(chars) ==
    LET hex == StripHash(chars)
    IN  /\ Len(hex) \in {3, 6}
        /\ \A i \in DOMAIN hex : IsHexDigit(hex[i])

WellFormedColor(v) == v.type = "string" /\ WellFormedHex(v.chars)

FailsValidation ==
    /\ input # <<>>
    /\ \/ op = "setAllPower" /\ input[1].type # "boolean"
       \/ op = "setAllBrightness" /\ input[1].type # "number"
       \/ op = "setAllBrightness" /\ input[1].type = "number"
              /\ (input[1].num < 0 \/ input[1].num > 255)
       \/ caller = "colorRoute" /\ ~WellFormedColor(input[1])

C15_InvalidInputIs400NoCalls ==
    FailsValidation =>
        /\ sent = <<>>
        /\ pc = "responded" => response[1].status = 400

(***************************************************************************)
(* C16: hexToRgb returns null for every string that, after one leading '#' *)
(* is removed, is not exactly 3 or exactly 6 hexadecimal digits, and       *)
(* otherwise returns [r, g, b] with each channel in 0..255 equal to the    *)
(* value of its two hexadecimal digits (each digit doubled in the 3-digit  *)
(* form); the color route answers 400 'Invalid color format' exactly when  *)
(* hexToRgb returned null.                                                 *)
(***************************************************************************)
\* the six digits a well-formed string stands for
SixDigits(chars) ==
    LET hex == StripHash(chars)
    IN  IF Len(hex) = 3 THEN DoubleEach(hex) ELSE hex

\* the value of the two hexadecimal digits of channel n (1, 2 or 3)
ChannelValue(chars, n) ==
    16 * HexValue(SixDigits(chars)[2 * n - 1]) + HexValue(SixDigits(chars)[2 * n])

\* the color route has handed a string to hexToRgb
HexToRgbCalled ==
    /\ caller = "colorRoute"
    /\ input[1].type = "string"
    /\ ~Falsy(input[1])

C16_HexToRgbAcceptsExactlyHex ==
    HexToRgbCalled =>
        LET chars == input[1].chars
            rgb == HexToRgb(chars)
        IN  /\ rgb = Null <=> ~WellFormedHex(chars)
            /\ rgb # Null =>
                  /\ Len(rgb) = 3
                  /\ \A n \in 1..3 : rgb[n] \in 0..255 /\ rgb[n] = ChannelValue(chars, n)
            /\ pc = "responded" =>
                  (response[1] = BadRequest(<<"Invalid color format">>) <=> rgb = Null)

(***************************************************************************)
(* C17: for every integer b, setBrightness(b) transmits                    *)
(* bri = max(0, min(255, b)): a value above 255 is sent as 255, a value    *)
(* below 0 as 0 and a value in 0..255 unchanged, so the transmitted        *)
(* brightness is always within 0..255.                                     *)
(***************************************************************************)
C17_BrightnessClamped ==
    \A i \in DOMAIN sent :
        sent[i].call = "setBrightness" =>
            /\ sent[i].body.bri \in 0..255
            /\ sent[i].body.bri = IF props.bri > 255 THEN 255
                                  ELSE IF props.bri < 0 THEN 0
                                  ELSE props.bri

\* setBrightness(-10) has handed its request to axios
C17_Witness ==
    /\ op = "setBrightness"
    /\ sent # <<>>
    /\ props.bri = -10
    /\ sent[1].body.bri = 0

(***************************************************************************)
(* C18: for a feature with exactly one target (controller c, segment s)    *)
(* and any payload p, dispatch through setSegment(s, p) and dispatch       *)
(* through setSegments with the one-element list [{id: s, ...p}] behave    *)
(* alike: the same request body goes to the same controller and the        *)
(* dispatch reports the same success or failure.                           *)
(***************************************************************************)
\* the feature of the invocation carries the flag and a targets array
DeclaredWithTargets ==
    /\ "multiSegment" \in DOMAIN features[featureName]
    /\ features[featureName].multiSegment = TRUE
    /\ "targets" \in DOMAIN features[featureName]

\* setFeature has looked up a feature that resolves to exactly one target
OneTarget ==
    /\ op = "none"
    /\ pc \notin {"idle", "setFeature"}
    /\ featureName \in DOMAIN features
    /\ DeclaredWithTargets => Len(features[featureName].targets) = 1

TheTarget ==
    IF DeclaredWithTargets
    THEN features[featureName].targets[1]
    ELSE [controller |-> features[featureName].controller,
          segment |-> features[featureName].segment]

C18_OneTargetSameEitherWay ==
    OneTarget =>
        /\ TheTarget.controller \notin clients =>
              /\ sent = <<>>
              /\ ~HasReturned
        /\ TheTarget.controller \in clients =>
              /\ ~HasThrown
              /\ sent # <<>> =>
                    /\ Len(sent) = 1
                    /\ sent[1].controller = TheTarget.controller
                    /\ sent[1].path = "/json/state"
                    /\ sent[1].body = [seg |-> << ExpectedEntry(TheTarget.segment, props) >>]
              /\ pc \in {"returned", "responded"} =>
                    /\ Len(sent) = 1
                    /\ Len(answered) = 1
                    /\ HasReturned
                    /\ ReturnedValue.success = answered[1][3].ok

\* the single feature and the one-target list feature name the same target,
\* and the list feature has been dispatched with a payload that carries an id
C18_Witness ==
    /\ OneTarget
    /\ DeclaredWithTargets
    /\ "controller" \in DOMAIN features[SingleName]
    /\ "multiSegment" \notin DOMAIN features[SingleName]
    /\ TheTarget = [controller |-> features[SingleName].controller,
                    segment |-> features[SingleName].segment]
    /\ HasReturned
    /\ ~ReturnedValue.success
    /\ "id" \in DOMAIN props
    /\ sent[1].body = SetSegmentRequest(TheTarget.controller, TheTarget.segment, props).body

(***************************************************************************)
(* C19: setFeature dispatches a feature declared with multiSegment: true   *)
(* that has a targets array through that array, and every other feature    *)
(* (the flag without an array and an array without the flag included)      *)
(* through its own controller + segment pair, with exactly one request to  *)
(* that one controller when the controller is configured.                  *)
(***************************************************************************)
\* setFeature has looked the feature up
Dispatching ==
    /\ op = "none"
    /\ input = <<>>
    /\ pc \notin {"idle", "setFeature"}
    /\ featureName \in DOMAIN features

ThroughTargets ==
    \A i \in DOMAIN sent :
        /\ sent[i].call = "setSegments"
        /\ sent[i].body.seg = ExpectedSegments(InvocationTargets, sent[i].controller, props)

ThroughOwnPair ==
    /\ \A i \in DOMAIN sent :
          /\ sent[i].call = "setSegment"
          /\ sent[i].controller = features[featureName].controller
          /\ sent[i].body.seg = << ExpectedEntry(features[featureName].segment, props) >>
    /\ Len(sent) <= 1
    /\ (pc \in {"returned", "thrown", "responded"}
            /\ features[featureName].controller \in clients) => Len(sent) = 1

Completed ==
    /\ op = "none"
    /\ \/ pc = "responded"
       \/ pc \in {"returned", "thrown"} /\ caller = "direct"

\* the completed invocations with the name and payload of this one
EarlierSame == { h \in history : h.name = featureName /\ h.props = props }

C20_SameRequestsEveryTime ==
    /\ \A g, h \in history : (g.name = h.name /\ g.props = h.props) => g.sent = h.sent
    /\ Completed => \A h \in EarlierSame : h.sent = sent

\* a second invocation of the list feature is over, after invocations of
\* other features, and at least one of its controllers failed
C20_Witness ==
    /\ Completed
    /\ featureName = MultiName
    /\ EarlierSame # {}
    /\ Cardinality(history) >= 3
    /\ Len(sent) = 2
    /\ AnsweredFailure

(***************************************************************************)
(* C21: a feature that references an unknown controller key does not       *)
(* prevent the construction of the ControllerManager; after construction   *)
(* every other feature whose references are valid is dispatched normally,  *)
(* and the bad reference is detected only when the offending feature       *)
(* itself is dispatched.                                                   *)
(***************************************************************************)
\* the controller keys the dispatch of feature n resolves to
KeysOf(n) ==
    IF /\ "multiSegment" \in DOMAIN features[n]
       /\ features[n].multiSegment = TRUE
       /\ "targets" \in DOMAIN features[n]
    THEN { features[n].targets[i].controller : i \in DOMAIN features[n].targets }
    ELSE { features[n].controller }

\* some feature of the registry references a controller that is not configured
RegistryHasBadReference == \E n \in DOMAIN features : ~(KeysOf(n) \subseteq clients)

C21_BadReferenceOnlyBreaksItsFeature ==
    /\ clients = ControllerKeys
    /\ (Dispatching /\ KeysOf(featureName) \subseteq clients) =>
          /\ ~HasThrown
          /\ pc \in {"returned", "responded"} =>
                /\ HasReturned
                /\ ContactedControllers = KeysOf(featureName)
                /\ Len(answered) = Len(sent)
                /\ ReturnedValue.success = (\A i \in DOMAIN answered : answered[i][3].ok)
    /\ (Dispatching /\ HasThrown) =>
          \E k \in KeysOf(featureName) \ clients :
              outcome[1].message = <<"Controller '", k, "' not found">>

\* a valid feature has been applied although another feature of the
\* registry references a controller that is not configured
C21_Witness ==
    /\ RegistryHasBadReference
    /\ Dispatching
    /\ KeysOf(featureName) \subseteq clients
    /\ HasReturned
    /\ ReturnedValue.success
    /\ Len(sent) = 2

(***************************************************************************)
(* C23: within one multi-target setFeature the per-controller requests are *)
(* issued one after the other: at most one request of the invocation is    *)
(* in flight at any time, and whenever a request is in flight every        *)
(* earlier request of the invocation has already been answered, with       *)
(* success or failure; between two requests nothing is outstanding.        *)
(***************************************************************************)
InFanOut ==
    /\ op = "none"
    /\ input = <<>>
    /\ pc \in {"loop", "awaitSegments"}

C23_OneRequestInFlight ==
    InFanOut =>
        /\ Len(inflight) <= 1
        /\ Len(sent) = Len(answered) + Len(inflight)
        /\ (pc = "awaitSegments") = (inflight # <<>>)
        /\ inflight # <<>> => inflight[1] = sent[Len(sent)]
        /\ \A i \in DOMAIN answered : answered[i][1] = sent[i].controller

\* the second request is in flight after the first one failed
C23_Witness ==
    /\ InFanOut
    /\ Len(sent) = 2
    /\ inflight # <<>>
    /\ Len(answered) = 1
    /\ ~answered[1][2].success

(***************************************************************************)
(* C26: with debug logging enabled, every call of axios made by a client   *)
(* (for setSegment, setSegments, getState, getInfo, setPower,              *)
(* setBrightness, loadPreset or ping) is immediately preceded in program   *)
(* order by a console.log record of that client for the request.           *)
(***************************************************************************)
LoggedAt(i) ==
    /\ i > 1
    /\ trace[i - 1].kind = "log"
    /\ trace[i - 1].controller = trace[i].controller

C26_LoggedBeforeEveryCall ==
    debug => \A i \in DOMAIN trace : trace[i].kind = "axios" => LoggedAt(i)

(***************************************************************************)
(* C22: no step of the ControllerManager changes the feature registry, the *)
(* client table or the clients' configuration, and when two setFeature     *)
(* invocations are interleaved at their awaits, each one that completes    *)
(* has issued the requests and produced the outcome that the same          *)
(* invocation produces alone from the same controller responses; a         *)
(* combined result holds entries of its own feature's controllers only.    *)
(***************************************************************************)
\* setMultipleTargets run from entry i to its end without interruption, the
\* k-th request being answered with the transport outcome ts[k]
RECURSIVE SoloLoop(_, _, _, _, _, _)
SoloLoop(ents, i, res, errs, snt, ts) ==
    IF LoopDone(i, ents, errs)
    THEN [sent |-> snt, outcome |-> Returned(Aggregate(res, errs))]
    ELSE LET key == ents[i][1] IN
         IF ~ClientKnown(key)
         THEN [sent |-> snt, outcome |-> Thrown(ControllerNotFound(key))]
         ELSE IF i > Len(ts)
         THEN [sent |-> Append(snt, SetSegmentsRequest(key, ents[i][2])), outcome |-> <<>>]
         ELSE LET result == ClientResult(key, ts[i]) IN
              SoloLoop(ents, i + 1, PutKey(res, key, result),
                       PushError(errs, key, result),
                       Append(snt, SetSegmentsRequest(key, ents[i][2])), ts)

\* setFeature(name, p) run alone against the transport outcomes ts
SoloDispatch(name, p, ts) ==
    IF LookupFeature(name) = <<>>
    THEN [sent |-> <<>>, outcome |-> Thrown(FeatureNotFound(name))]
    ELSE LET feature == LookupFeature(name)[1] IN
         IF IsMultiSegment(feature)
         THEN SoloLoop(ObjectEntries(GroupByController(feature.targets, p)),
                       1, <<>>, <<>>, <<>>, ts)
         ELSE LET key == Field(feature, "controller")
                  req == SetSegmentRequest(key, Field(feature, "segment"), p)
              IN  IF ~ClientKnown(key)
                  THEN [sent |-> <<>>, outcome |-> Thrown(ControllerNotFound(key))]
                  ELSE IF ts = <<>>
                  THEN [sent |-> << req >>, outcome |-> <<>>]
                  ELSE [sent |-> << req >>, outcome |-> Returned(ClientResult(key, ts[1]))]

ResponsesOf(ans) == [i \in DOMAIN ans |-> ans[i][3]]

AsAlone(l) ==
    LET solo == SoloDispatch(l.featureName, l.props, ResponsesOf(l.answered)) IN
    /\ l.sent = solo.sent
    /\ l.outcome = solo.outcome

OwnOutcomesOnly(l) ==
    (/\ l.outcome # <<>>
     /\ l.outcome[1].kind = "return"
     /\ "results" \in DOMAIN l.outcome[1].value)
        => \A i \in DOMAIN l.outcome[1].value.results :
               /\ l.outcome[1].value.results[i][1] \in KeysOf(l.featureName)
               /\ \E k \in DOMAIN l.answered :
                     /\ l.answered[k][1] = l.outcome[1].value.results[i][1]
                     /\ l.answered[k][2] = l.outcome[1].value.results[i][2]

\* setFeature was called and is suspended or over
Underway(l) ==
    /\ l.op = "none"
    /\ l.input = <<>>
    /\ l.pc \notin {"idle", "setFeature", "loop"}
    /\ ~(l.pc = "responded" /\ l.outcome = <<>>)

C22_Isolated ==
    /\ Underway(Locals) => (AsAlone(Locals) /\ OwnOutcomesOnly(Locals))
    /\ parked # <<>> => (AsAlone(parked[1]) /\ OwnOutcomesOnly(parked[1]))

C22_SharedStateUntouched ==
    /\ features' = features
    /\ clients' = clients
    /\ debug' = debug

C22_InterleavedAsAlone == []C22_Isolated /\ [][C22_SharedStateUntouched]_vars

\* a two-controller dispatch completed with both controllers failing while
\* another dispatch of the same feature, which got a success from its first
\* controller, is suspended at its second request
C22_Witness ==
    /\ parked # <<>>
    /\ parked[1].featureName = MultiName
    /\ Len(parked[1].sent) = 2
    /\ parked[1].answered[1][2].success
    /\ featureName = MultiName
    /\ HasReturned
    /\ Len(sent) = 2
    /\ \A i \in DOMAIN answered : ~answered[i][2].success
    /\ ~ReturnedValue.success

(***************************************************************************)
(* C24: provided every client call settles, every invocation of            *)
(* setFeature, pingAll, getAllStates, setAllPower, setAllBrightness and    *)
(* loadPresetAll that has started eventually returns or throws, and at no  *)
(* time has it issued more than one call to the same controller or a call  *)
(* to a controller that is not involved in it.                             *)
(***************************************************************************)
InvocationRunning ==
    pc \in {"setFeature", "loop", "awaitSegments", "awaitSegment", "allLoop", "awaitAll"}

InvocationOver == pc \in {"returned", "thrown"}

Involved ==
    IF op # "none" THEN clients
    ELSE IF featureName \in DOMAIN features THEN KeysOf(featureName)
    ELSE {}

OneCallPerController ==
    /\ \A i, j \in DOMAIN sent : sent[i].controller = sent[j].controller => i = j
    /\ \A i \in DOMAIN sent : sent[i].controller \in Involved

C24_EveryInvocationTerminates ==
    /\ []OneCallPerController
    /\ InvocationRunning ~> InvocationOver

\* a fan-out over all three controllers ended although one of them failed
C24_Witness ==
    /\ InvocationOver
    /\ op = "setAllPower"
    /\ Len(sent) = Cardinality(clients)
    /\ \E i \in DOMAIN answered : ~answered[i][2].success
    /\ \E i \in DOMAIN answered : answered[i][2].success

(***************************************************************************)
(* C25: no answer of the controllers ends the process.  In hardware mode   *)
(* the start-up probe is followed by the server listening, whatever the    *)
(* controllers answered; the process never exits and a listening server    *)
(* keeps listening; and once some dispatch has ended with every controller *)
(* failing, every later request for a feature is still answered and has    *)
(* contacted the controllers again.                                        *)
(***************************************************************************)
StaysListening == server = "listening" => server' = "listening"

Served ==
    /\ pc = "responded"
    /\ response # <<>>
    /\ sent # <<>>
    /\ Len(answered) = Len(sent)
    /\ server = "listening"

C25_OfflineControllersNeverFatal ==
    /\ [](server # "exited")
    /\ [][StaysListening]_vars
    /\ (server = "probing") ~> (server = "listening")
    /\ (blackout /\ pc = "setFeature") ~> Served

\* the probe found every controller offline, a dispatch then failed on
\* every controller, and a later dispatch reached both of its controllers
C25_Witness ==
    /\ server = "listening"
    /\ debug
    /\ blackout
    /\ Served
    /\ featureName = MultiName
    /\ Len(sent) = 2
    /\ response[1].status = 200

(***************************************************************************)
(* C27: once the screensaver has been dismissed, no command of an idle     *)
(* cycle is sent to the backend until the screensaver is shown again: the  *)
(* commands sent since the dismissal hold none that runIdleCycle issued,   *)
(* also when a cycle was suspended at an await when the user tapped.       *)
(***************************************************************************)
IdleCommands == { c \in issued : c.by = "idle" }

C27_NoIdleCommandWhileDismissed ==
    ~screensaverActive => IdleCommands = {}

(***************************************************************************)
(* C28: after any sequence of init, taps on the screensaver, user          *)
(* activity and timer firings, at most one idle start timeout and at most  *)
(* one idle repeat interval are pending (each is the one its field refers  *)
(* to), and neither is pending while screensaverActive is false.           *)
(***************************************************************************)
PendingCount(k) == (IF Pending(This[k]) THEN 1 ELSE 0) + orphans[k]

C28_IdleTimersAtMostOneAndOnlyWhileActive ==
    /\ PendingCount("idleStartTimeout") <= 1
    /\ PendingCount("idleInterval") <= 1
    /\ ~screensaverActive =>
          /\ PendingCount("idleStartTimeout") = 0
          /\ PendingCount("idleInterval") = 0

\* the screensaver was dismissed and shown again, and in this second active
\* period the start timeout has fired and its interval is pending
C28_Witness ==
    /\ screensaverActive
    /\ resetTimeout # "null"
    /\ idleStartTimeout = "stale"
    /\ PendingCount("idleInterval") = 1
    /\ PendingCount("idleStartTimeout") = 0

(***************************************************************************)
(* C29: while the screensaver is dismissed (screensaverActive false, the   *)
(* element hidden) exactly one inactivity timer is pending, and while it   *)
(* is active none is; showScreensaver runs only from the dismissed state;  *)
(* and a behaviour in which the screensaver stays dismissed for ever has   *)
(* user activity again and again: without further activity the             *)
(* screensaver is eventually shown again.                                  *)
(***************************************************************************)
OneInactivityTimer ==
    /\ ~screensaverActive =>
          /\ screensaverHidden
          /\ Pending(inactivityTimeout)
          /\ PendingCount("inactivityTimeout") = 1
    /\ screensaverActive => PendingCount("inactivityTimeout") = 0

ShownOnlyWhenDismissed ==
    (\E token \in {"a", "b"} : InactivityFires(token)) =>
        (~screensaverActive /\ screensaverActive')

ActivityStep == UserActivity \/ ClickReset

C29_InactivityTimerBringsScreensaverBack ==
    /\ []OneInactivityTimer
    /\ [][ShownOnlyWhenDismissed]_vars
    /\ ([]<>screensaverActive \/ []<><<ActivityStep>>_vars)

\* the screensaver is back after a dismissal: the reset timer that only
\* showScreensaver starts is pending and no inactivity timer is left
C29_Witness ==
    /\ painterPc = "ready"
    /\ screensaverActive
    /\ ~screensaverHidden
    /\ resetTimeout = "pending"
    /\ inactivityTimeout = "null"
    /\ PendingCount("inactivityTimeout") = 0

(***************************************************************************)
(* C30: in every period in which the screensaver is active, a tap on it    *)
(* issues the reset of wholePumpkin to solid (fx 0) soft orange            *)
(* [255,136,0] exactly when the screensaver has been active for resetDelay *)
(* and hides the screensaver in both cases; and shouldResetOnNextTap is    *)
(* false whenever the screensaver is hidden.                               *)
(***************************************************************************)
TapReset ==
    [by |-> "tap", feature |-> "wholePumpkin", kind |-> "solid",
     col |-> << 255, 136, 0 >>]

TapResetsWhenActiveLong ==
    TapScreensaver =>
        /\ activeLong <=> (TapReset \in issued')
        /\ screensaverHidden'
        /\ ~screensaverActive'

C30_TapResetsAfterResetDelay ==
    /\ [][TapResetsWhenActiveLong]_vars
    /\ [](~screensaverActive => ~shouldResetOnNextTap)

(***************************************************************************)
(* C35: for every payload the feature route accepts, every segment entry   *)
(* handed to a controller carries the id configured for its target: the    *)
(* feature's own segment on the single path, and on the targets path the   *)
(* segments of the targets of that controller, in target order.            *)
(***************************************************************************)
ConfiguredIds(request) ==
    IF request.call = "setSegment"
    THEN << Field(features[featureName], "segment") >>
    ELSE LET own == SelectSeq(features[featureName].targets,
                              LAMBDA t : t.controller = request.controller)
         IN  [j \in 1..Len(own) |-> own[j].segment]

C35_PayloadCannotReaddress ==
    (Dispatching /\ caller = "route") =>
        \A i \in DOMAIN sent :
            /\ Len(sent[i].body.seg) = Len(ConfiguredIds(sent[i]))
            /\ \A j \in DOMAIN sent[i].body.seg :
                  sent[i].body.seg[j].id = ConfiguredIds(sent[i])[j]

(***************************************************************************)
(* C36: whenever setFeature returns success = true, at least one request   *)
(* was handed to a controller during the invocation and was answered with  *)
(* a 2xx response, whatever the feature's configuration.                   *)
(***************************************************************************)
Acknowledged == \E i \in DOMAIN answered : answered[i][3].ok

C36_SuccessMeansAcknowledged ==
    (Dispatching /\ HasReturned /\ ReturnedValue.success) =>
        (sent # <<>> /\ Acknowledged)

(***************************************************************************)
(* debounce(func, wait) of public/js/ui-components.js and of               *)
(* public/js/pumpkin.js (the same text).  A timer is [args, state]: the    *)
(* arguments its `later` closure captured and "pending", "cleared" or      *)
(* "fired"; its id is its index in timers.  A pending timer is one whose   *)
(* wait has not elapsed; it fires when the wait has elapsed.  A call is    *)
(* [args, fresh]: fresh when the wait of the previous call had elapsed,    *)
(* that is, when the call starts a new burst.                              *)
(***************************************************************************)
MaxCalls == 4

DebounceArgs == {0, 128, 255}

\* clearTimeout(id)
ClearTimeout(ts, id) ==
    IF id \in DOMAIN ts /\ ts[id].state = "pending"
    THEN [ts EXCEPT ![id].state = "cleared"]
    ELSE ts

TimerPending == timeout \in DOMAIN timers /\ timers[timeout].state = "pending"

BackendQuiet ==
    /\ features = OpsConfiguration
    /\ clients = ControllerKeys
    /\ NoInvocation
    /\ history = {}
    /\ recording = {}
    /\ Serving

InitDebounce ==
    /\ BackendQuiet
    /\ PainterFields
    /\ screensaverHidden = FALSE
    /\ NoToastNoCatalog
    /\ NoDebounce
    /\ NoAdmin
    /\ NoSimulation

pageFields == <<painterPc, screensaverHidden, screensaverActive, shouldResetOnNextTap,
                inactivityTimeout, resetTimeout, idleStartTimeout, idleInterval,
                orphans, cycles, issued, activeLong>>

\* executedFunction(...args) without its clearTimeout
ExecutedFunctionNoClear(args) ==
    /\ Len(calls) < MaxCalls
    /\ calls' = Append(calls, [args |-> args, fresh |-> ~TimerPending])
    /\ timers' = Append(timers, [args |-> args, state |-> "pending"])
    /\ timeout' = Len(timers) + 1
    /\ UNCHANGED invoked
    /\ UNCHANGED <<backend, pageFields, page, admin, simulation>>

\* executedFunction(...args): clearTimeout(timeout); timeout = setTimeout(later, wait)
ExecutedFunction(args) ==
    /\ Len(calls) < MaxCalls
    /\ calls' = Append(calls, [args |-> args, fresh |-> ~TimerPending])
    /\ timers' = Append(ClearTimeout(timers, timeout), [args |-> args, state |-> "pending"])
    /\ timeout' = Len(timers) + 1
    /\ UNCHANGED invoked
    /\ UNCHANGED <<backend, pageFields, page, admin, simulation>>

\* the wait of timer id has elapsed: later() runs clearTimeout(timeout) and
\* func(...args) with the arguments of the call that made the timer
Later(id) ==
    /\ id \in DOMAIN timers
    /\ timers[id].state = "pending"
    /\ timers' = ClearTimeout([timers EXCEPT ![id].state = "fired"], timeout)
    /\ invoked' = Append(invoked, [args |-> timers[id].args, timer |-> id,
                                   after |-> Len(calls)])
    /\ UNCHANGED <<timeout, calls>>
    /\ UNCHANGED <<backend, pageFields, page, admin, simulation>>

NextDebounce ==
    \/ \E args \in DebounceArgs : ExecutedFunction(args)
    \/ \E id \in DOMAIN timers : Later(id)

\* a timer whose wait has elapsed runs
WaitsElapse == WF_vars(\E id \in DOMAIN timers : Later(id))

SpecDebounce == InitDebounce /\ [][NextDebounce]_vars /\ WaitsElapse

(***************************************************************************)
(* C33.  A burst is a maximal run of calls each of which arrives before    *)
(* the wait of the previous one has elapsed.  func is invoked once per     *)
(* finished burst, by the timer of the burst's last call and so not before *)
(* the wait after that call has elapsed, with the arguments of that call;  *)
(* func is never invoked more often than the wrapper was called; and a     *)
(* burst that has ended is followed by its invocation.                     *)
(***************************************************************************)
Bursts == Cardinality({ i \in DOMAIN calls : calls[i].fresh })

\* the last call of the burst that call i belongs to, as far as the calls go
RECURSIVE BurstEnd(_)
BurstEnd(i) ==
    IF i + 1 \in DOMAIN calls /\ ~calls[i + 1].fresh THEN BurstEnd(i + 1) ELSE i

OncePerBurst ==
    /\ Len(invoked) <= Len(calls)
    /\ Len(invoked) = Bursts - (IF \E id \in DOMAIN timers : timers[id].state = "pending"
                                THEN 1 ELSE 0)
    /\ \A k \in DOMAIN invoked :
          /\ invoked[k].after \in DOMAIN calls
          /\ invoked[k].timer = invoked[k].after
          /\ invoked[k].args = calls[invoked[k].after].args
          /\ BurstEnd(invoked[k].after) = invoked[k].after
          /\ \A j \in DOMAIN invoked : j < k => invoked[j].after < invoked[k].after

LastCallServed ==
    calls # <<>> => \E k \in DOMAIN invoked : invoked[k].after = Len(calls)

C33_DebounceOncePerBurstWithLastArguments ==
    /\ []OncePerBurst
    /\ \A n \in 1..(MaxCalls + 1) : (Len(calls) = n) ~> (Len(calls) > n \/ LastCallServed)

\* a burst of three calls was followed by one invocation, then a second
\* burst began
C33_Witness ==
    /\ Len(calls) >= 4
    /\ calls[1].fresh /\ ~calls[2].fresh /\ ~calls[3].fresh /\ calls[4].fresh
    /\ calls[3].args # calls[1].args
    /\ Len(invoked) >= 1
    /\ invoked[1].args = calls[3].args

(***************************************************************************)
(* The page's applySettings (public/js/pumpkin.js) against the route.  The *)
(* page's api.setFeature is fetch followed by response.json(): it resolves *)
(* with the body whatever the status, and rejects when the request does    *)
(* not reach the server.  A toast is [text, answer]: answer is the HTTP     *)
(* response that api.setFeature resolved from, <<>> when there is none.    *)
(***************************************************************************)
Toast(text, answer) == << [text |-> text, answer |-> answer] >>

InitApply ==
    /\ BackendQuiet
    /\ PainterFields
    /\ screensaverHidden = TRUE
    /\ NoToastNoCatalog
    /\ NoDebounce
    /\ NoAdmin
    /\ NoSimulation

\* applySettings with no feature selected
ApplyNothingSelected ==
    /\ pc = "idle"
    /\ toast' = Toast("noFeature", <<>>)
    /\ UNCHANGED <<backend, pageFields, catalog, cycle, debounced, admin, simulation>>

\* applySettings after its await: the route has answered, response.json()
\* gave the body and the try block goes on
FetchResolves ==
    /\ pc = "responded"
    /\ caller = "route"
    /\ toast' = Toast("applied", response)
    /\ UNCHANGED <<backend, pageFields, catalog, cycle, debounced, admin, simulation>>

\* applySettings after its await: fetch rejected (the server was not
\* reached) and the catch block runs
FetchRejects ==
    /\ pc = "idle"
    /\ toast' = Toast("failed", <<>>)
    /\ UNCHANGED <<backend, pageFields, catalog, cycle, debounced, admin, simulation>>

\* showToast: the toast is removed after three seconds
ToastExpires ==
    /\ toast # <<>>
    /\ toast' = <<>>
    /\ UNCHANGED <<backend, pageFields, catalog, cycle, debounced, admin, simulation>>

NextApply ==
    \/ pc = "idle" /\ \E name \in RequestNames, p \in Payloads : PostFeature(name, p)
    \/ SetFeature
    \/ LoopStep
    \/ \E t \in TransportOutcomes : SetSegmentsSettles(t)
    \/ \E t \in TransportOutcomes : SetSegmentSettles(t)
    \/ RouteResponds
    \/ Finish
    \/ ApplyNothingSelected
    \/ FetchResolves
    \/ FetchRejects
    \/ ToastExpires

SpecApply == InitApply /\ [][NextApply]_vars

(***************************************************************************)
(* C34.  The toast that follows an answer of POST /api/feature says        *)
(* "applied" exactly when the answer reports success; after a failure      *)
(* answer (404 or 500, success false) the failure toast is shown.          *)
(***************************************************************************)
C34_AppliedToastOnlyOnSuccess ==
    \A i \in DOMAIN toast :
        toast[i].answer # <<>> =>
            /\ toast[i].text = "applied" <=> toast[i].answer[1].body.success
            /\ toast[i].text = "failed" <=> ~toast[i].answer[1].body.success

(***************************************************************************)
(* The choice of effects and palettes in runIdleCycle                      *)
(* (public/js/pumpkin.js).  An effect or palette of the configuration is   *)
(* a record with an id and, optionally, show.  Math.random() is a free     *)
(* choice: pickRandomEffect and pickRandomPalette are the sets of their    *)
(* possible results, each result a sequence of 0 (null) or 1 element.  A   *)
(* command is [feature, region, fx, pal]; region names the group of the    *)
(* roll that the feature was addressed as.                                 *)
(***************************************************************************)
MaxPaletteId == 8

EffectUniverse ==
    { [id |-> 0, show |-> TRUE], [id |-> 1], [id |-> 2, show |-> FALSE],
      [id |-> 3, show |-> TRUE] }

PaletteEntry(id, hidden) ==
    IF id \in hidden THEN [id |-> id, show |-> FALSE]
    ELSE IF id % 2 = 0 THEN [id |-> id, show |-> TRUE]
    ELSE [id |-> id]

\* configurations: any of the effects; the palettes 0..n-1, one of them
\* possibly hidden
Catalogs ==
    { [effects |-> es, palettes |-> { PaletteEntry(id, hidden) : id \in 0..(n - 1) }] :
        es \in SUBSET EffectUniverse, n \in 0..(MaxPaletteId + 1), hidden \in {{}, {5}} }

\* item.show !== false
Shown(item) == "show" \notin DOMAIN item \/ item.show # FALSE

GetVisibleEffectsForIdleWithSolid ==
    { e \in catalog.effects : Shown(e) }

GetVisibleEffectsForIdle ==
    { e \in catalog.effects : Shown(e) /\ e.id # 0 }

GetVisiblePalettesForIdle ==
    { p \in catalog.palettes : Shown(p) /\ p.id \notin {2, 3, 4} }

PickRandomEffect ==
    IF GetVisibleEffectsForIdle = {} THEN { <<>> }
    ELSE { <<e>> : e \in GetVisibleEffectsForIdle }

PickRandomPaletteAny(excludeIds) ==
    IF GetVisiblePalettesForIdle = {} THEN { <<>> }
    ELSE { <<p>> : p \in GetVisiblePalettesForIdle }

PickRandomPalette(excludeIds) ==
    LET palettes == { p \in GetVisiblePalettesForIdle : p.id \notin excludeIds } IN
    IF palettes = {} THEN { <<>> }
    ELSE { <<p>> : p \in palettes }

\* usedN = p ? [...used, p.id] : used
Used(used, p) == IF p # <<>> THEN used \cup { p[1].id } ELSE used

\* the results of n successive pickRandomPalette calls, each excluding the
\* ids picked before it
RECURSIVE PickPalettes(_, _)
PickPalettes(used, n) ==
    IF n = 0 THEN { <<>> }
    ELSE UNION { { <<p>> \o rest : rest \in PickPalettes(Used(used, p), n - 1) } :
                    p \in PickRandomPalette(used) }

\* the applyEffectPalette calls for these features, none when the effect
\* or the palette is null
ApplyEffectPalette(fs, region, fx, p) ==
    IF fx = <<>> \/ p = <<>> THEN <<>>
    ELSE [i \in DOMAIN fs |-> [feature |-> fs[i], region |-> region,
                               fx |-> fx[1].id, pal |-> p[1].id]]

RandomCyclePaletteId == 1

WholeRuns ==
    { ApplyEffectPalette(<<"wholePumpkin">>, "whole", fx, << [id |-> RandomCyclePaletteId] >>) :
        fx \in PickRandomEffect }

GroupedRuns ==
    { ApplyEffectPalette(<<"bothEyes", "nose", "mouth">>, "face", fxs[1], ps[1])
        \o ApplyEffectPalette(<<"innerFiller">>, "filler", fxs[2], ps[2])
        \o ApplyEffectPalette(<<"pumpkinShell", "bothRims">>, "shellAndRims", fxs[3], ps[3]) :
        fxs \in [1..3 -> PickRandomEffect], ps \in PickPalettes({}, 3) }

RegionFeatures ==
    << "bothEyes", "nose", "mouth", "innerFiller", "pumpkinShell", "bothRims" >>

RECURSIVE RegionCommands(_, _, _)
RegionCommands(fx, ps, i) ==
    IF i > Len(ps) THEN <<>>
    ELSE ApplyEffectPalette(<< RegionFeatures[i] >>, RegionFeatures[i], fx, ps[i])
            \o RegionCommands(fx, ps, i + 1)

RegionRuns ==
    { RegionCommands(fx, ps, 1) : fx \in PickRandomEffect, ps \in PickPalettes({}, 6) }

Rolls == {"whole", "grouped", "regions"}

\* the commands one runIdleCycle can send with this roll
IdleRuns(roll) ==
    IF GetVisibleEffectsForIdle = {} \/ GetVisiblePalettesForIdle = {} THEN { <<>> }
    ELSE CASE roll = "whole" -> WholeRuns
           [] roll = "grouped" -> GroupedRuns
           [] roll = "regions" -> RegionRuns

InitIdle ==
    /\ BackendQuiet
    /\ painterPc = "ready"
    /\ screensaverHidden = FALSE
    /\ screensaverActive = TRUE
    /\ shouldResetOnNextTap = FALSE
    /\ inactivityTimeout = "null"
    /\ resetTimeout = "null"
    /\ idleStartTimeout = "null"
    /\ idleInterval = "pending"
    /\ orphans = [k \in TimerKinds |-> 0]
    /\ cycles = NoCycles
    /\ issued = {}
    /\ activeLong = FALSE
    /\ toast = <<>>
    /\ catalog \in Catalogs
    /\ cycle = <<>>
    /\ NoDebounce
    /\ NoAdmin
    /\ NoSimulation

\* the repeat interval fires and runIdleCycle runs to its end
IdleCycleRuns(roll) ==
    /\ screensaverActive
    /\ cycle = <<>>
    /\ \E commands \in IdleRuns(roll) :
          cycle' = << [roll |-> roll, commands |-> commands] >>
    /\ UNCHANGED <<backend, pageFields, toast, catalog, debounced, admin, simulation>>

\* the page waits for the next tick of the interval
IdleIntervalElapses ==
    /\ cycle # <<>>
    /\ cycle' = <<>>
    /\ UNCHANGED <<backend, pageFields, toast, catalog, debounced, admin, simulation>>

NextIdle ==
    \/ \E roll \in Rolls : IdleCycleRuns(roll)
    \/ IdleIntervalElapses

SpecIdle == InitIdle /\ [][NextIdle]_vars

(***************************************************************************)
(* C31.  Every command of an idle cycle carries the id of an effect of the *)
(* configuration that is shown and is not Solid (id 0), and a palette id   *)
(* other than 2, 3 and 4; with no such effect, or no shown palette other   *)
(* than 2, 3 and 4, the cycle sends nothing.                               *)
(***************************************************************************)
EligibleEffectIds ==
    { e.id : e \in { x \in catalog.effects : x.id # 0 /\ ("show" \in DOMAIN x => x.show) } }

EligiblePaletteIds ==
    { p.id : p \in { x \in catalog.palettes :
                        x.id \notin {2, 3, 4} /\ ("show" \in DOMAIN x => x.show) } }

C31_IdleUsesEligibleEffectAndPalette ==
    \A c \in DOMAIN cycle :
        /\ \A i \in DOMAIN cycle[c].commands :
              /\ cycle[c].commands[i].fx \in EligibleEffectIds
              /\ cycle[c].commands[i].pal \notin {2, 3, 4}
        /\ (EligibleEffectIds = {} \/ EligiblePaletteIds = {}) => cycle[c].commands = <<>>

\* Solid and the palettes 2, 3, 4 are configured and shown, and a cycle
\* sent six commands
C31_Witness ==
    /\ [id |-> 0, show |-> TRUE] \in catalog.effects
    /\ {2, 4} \subseteq { p.id : p \in catalog.palettes }
    /\ cycle # <<>>
    /\ Len(cycle[1].commands) = 6

(***************************************************************************)
(* C32.  In one idle cycle two commands addressed as different regions     *)
(* carry different palettes (grouped: face, filler, shell and rims; same   *)
(* effect: eyes, nose, mouth, filler, shell, rims), and a region is left   *)
(* out exactly when every eligible palette is already used by the regions  *)
(* before it.                                                              *)
(***************************************************************************)
RegionsOf(roll) ==
    CASE roll = "grouped" -> << "face", "filler", "shellAndRims" >>
      [] roll = "regions" -> RegionFeatures
      [] OTHER -> << "whole" >>

ServedRegions(run) == { run.commands[i].region : i \in DOMAIN run.commands }

PaletteOf(run, region) ==
    { run.commands[i].pal : i \in { j \in DOMAIN run.commands : run.commands[j].region = region } }

C32_RegionPalettesPairwiseDistinct ==
    \A c \in DOMAIN cycle :
        cycle[c].roll \in {"grouped", "regions"} /\ EligibleEffectIds # {} =>
            LET run == cycle[c]
                regions == RegionsOf(run.roll)
            IN  /\ \A i, j \in DOMAIN run.commands :
                      run.commands[i].region # run.commands[j].region
                          => run.commands[i].pal # run.commands[j].pal
                /\ \A r \in DOMAIN regions :
                      /\ regions[r] \in ServedRegions(run) => Cardinality(PaletteOf(run, regions[r])) = 1
                      /\ regions[r] \notin ServedRegions(run) <=>
                            EligiblePaletteIds \subseteq
                                UNION { PaletteOf(run, regions[q]) : q \in 1..(r - 1) }

\* four eligible palettes for six regions: four regions served, each with
\* its own palette, two left out
C32_Witness ==
    /\ cycle # <<>>
    /\ cycle[1].roll = "regions"
    /\ Cardinality(EligiblePaletteIds) = 4
    /\ Cardinality(ServedRegions(cycle[1])) = 4
    /\ Cardinality({ cycle[1].commands[i].pal : i \in DOMAIN cycle[1].commands }) = 4

(***************************************************************************)
(* The admin panel (public/js/app.js, class PumpkinPainter).  api is       *)
(* imported from ./api.js; a call of it is a promise that the panel        *)
(* awaits and that resolves or rejects later.  Of the current settings     *)
(* only the effect is changed by the user here: the palette stays null     *)
(* and speed and intensity stay at the 128 of the constructor.             *)
(***************************************************************************)
MaxInFlight == 2

AdminEffects == {0, 9}

\* the props that applySettings builds from the current settings
AdminProps(effect) ==
    IF effect = <<>> THEN [sx |-> 128, ix |-> 128]
    ELSE [fx |-> effect[1], sx |-> 128, ix |-> 128]

RemoveAt(list, i) == SubSeq(list, 1, i - 1) \o SubSeq(list, i + 1, Len(list))

\* obj[key] = value on an object whose key order does not matter
Assign(obj, key, value) ==
    [k \in DOMAIN obj \cup {key} |-> IF k = key THEN value ELSE obj[k]]

pagePart == <<pageFields, page, debounced, simulation>>

InitAdmin ==
    /\ BackendQuiet
    /\ PainterFields
    /\ screensaverHidden = FALSE
    /\ NoToastNoCatalog
    /\ NoDebounce
    /\ NoAdmin
    /\ NoSimulation

\* selectFeature(featureKey), also called by init() for the first feature
SelectFeature(featureKey) ==
    /\ selectedFeature' = featureKey
    /\ currentEffect' = IF featureKey \in DOMAIN featureStates
                           /\ "fx" \in DOMAIN featureStates[featureKey]
                        THEN << featureStates[featureKey].fx >>
                        ELSE currentEffect
    /\ UNCHANGED <<featureStates, applying, completed, isPowerOn, powerRequests>>
    /\ UNCHANGED <<backend, pagePart>>

\* selectEffect(effectId): sets the effect and runs applySettings up to
\* its await of api.setFeature
SelectEffect(effectId) ==
    /\ selectedFeature # "null"
    /\ Len(applying) < MaxInFlight
    /\ currentEffect' = << effectId >>
    /\ applying' = Append(applying, [feature |-> selectedFeature,
                                     props |-> AdminProps(<< effectId >>)])
    /\ UNCHANGED <<selectedFeature, featureStates, completed, isPowerOn, powerRequests>>
    /\ UNCHANGED <<backend, pagePart>>

\* applySettings after its await: api.setFeature resolved, the props are
\* stored under this.selectedFeature and saved
ApplyResolves(i) ==
    /\ i \in DOMAIN applying
    /\ completed' = completed \cup { << applying[i].feature, applying[i].props >> }
    /\ featureStates' = Assign(featureStates, selectedFeature, applying[i].props)
    /\ applying' = RemoveAt(applying, i)
    /\ UNCHANGED <<selectedFeature, currentEffect, isPowerOn, powerRequests>>
    /\ UNCHANGED <<backend, pagePart>>

\* applySettings after its await: api.setFeature rejected
ApplyRejects(i) ==
    /\ i \in DOMAIN applying
    /\ applying' = RemoveAt(applying, i)
    /\ UNCHANGED <<selectedFeature, currentEffect, featureStates, completed,
                   isPowerOn, powerRequests>>
    /\ UNCHANGED <<backend, pagePart>>

NextAdmin ==
    \/ \E featureKey \in DOMAIN features : SelectFeature(featureKey)
    \/ \E effectId \in AdminEffects : SelectEffect(effectId)
    \/ \E i \in DOMAIN applying : ApplyResolves(i)
    \/ \E i \in DOMAIN applying : ApplyRejects(i)

SpecAdmin == InitAdmin /\ [][NextAdmin]_vars

(***************************************************************************)
(* C37.  Whatever the interleaving of selectFeature with applySettings     *)
(* invocations in flight, the payload stored in featureStates[f] is one    *)
(* that a completed api.setFeature call sent for the feature f.            *)
(***************************************************************************)
C37_FeatureStateIsWhatWasSent ==
    \A f \in DOMAIN featureStates : << f, featureStates[f] >> \in completed

(***************************************************************************)
(* The power button of the admin panel.  A request is [value, state]:      *)
(* the value given to api.setPower and "pending", "ok" or "failed".        *)
(***************************************************************************)
MaxPowerClicks == 4

InitPower ==
    /\ BackendQuiet
    /\ PainterFields
    /\ screensaverHidden = FALSE
    /\ NoToastNoCatalog
    /\ NoDebounce
    /\ selectedFeature = "null"
    /\ currentEffect = <<>>
    /\ featureStates = <<>>
    /\ applying = <<>>
    /\ completed = {}
    /\ isPowerOn \in BOOLEAN
    /\ powerRequests = <<>>
    /\ NoSimulation

\* the click listener up to its await of api.setPower
ClickPower ==
    /\ Len(powerRequests) < MaxPowerClicks
    /\ isPowerOn' = ~isPowerOn
    /\ powerRequests' = Append(powerRequests, [value |-> ~isPowerOn, state |-> "pending"])
    /\ UNCHANGED <<selectedFeature, currentEffect, featureStates, applying, completed>>
    /\ UNCHANGED <<backend, pagePart>>

\* the click listener after its await: api.setPower resolved
PowerResolves(i) ==
    /\ i \in DOMAIN powerRequests
    /\ powerRequests[i].state = "pending"
    /\ powerRequests' = [powerRequests EXCEPT ![i].state = "ok"]
    /\ UNCHANGED <<selectedFeature, currentEffect, featureStates, applying, completed,
                   isPowerOn>>
    /\ UNCHANGED <<backend, pagePart>>

\* the click listener after its await: api.setPower rejected, the catch
\* block negates isPowerOn
PowerRejects(i) ==
    /\ i \in DOMAIN powerRequests
    /\ powerRequests[i].state = "pending"
    /\ powerRequests' = [powerRequests EXCEPT ![i].state = "failed"]
    /\ isPowerOn' = ~isPowerOn
    /\ UNCHANGED <<selectedFeature, currentEffect, featureStates, applying, completed>>
    /\ UNCHANGED <<backend, pagePart>>

NextPower ==
    \/ ClickPower
    \/ \E i \in DOMAIN powerRequests : PowerResolves(i)
    \/ \E i \in DOMAIN powerRequests : PowerRejects(i)

SpecPower == InitPower /\ [][NextPower]_vars

(***************************************************************************)
(* C38.  Once every request of the power button has settled, isPowerOn is  *)
(* the value of the latest issued request that succeeded, or the initial   *)
(* value when none succeeded.  The first request carries the negation of   *)
(* the initial value.                                                      *)
(***************************************************************************)
Succeeded == { i \in DOMAIN powerRequests : powerRequests[i].state = "ok" }

LatestSucceeded == CHOOSE i \in Succeeded : \A j \in Succeeded : j <= i

C38_PowerStateIsLatestSuccess ==
    (powerRequests # <<>> /\ \A i \in DOMAIN powerRequests : powerRequests[i].state # "pending")
        => isPowerOn = IF Succeeded = {} THEN ~powerRequests[1].value
                       ELSE powerRequests[LatestSucceeded].value

(***************************************************************************)
(* The process started with --use-simulator (src/src/server.js,            *)
(* startServer) and the simulator (WLEDSimulator, createSimulatorApp).     *)
(* An address is the sequence of the pieces of its template literal.  The  *)
(* state of a simulated controller is its state.seg, a sequence: the       *)
(* segment with id i is at index i + 1.  The requests of setSegment and    *)
(* setSegments carry seg only, so state.on and state.bri never change.     *)
(***************************************************************************)
SIMULATOR_PORT == "8080"

\* config.pumpkin.controllers[key].ip as loaded
ConfiguredIp(key) == << "ip of ", key >>

\* `localhost:${SIMULATOR_PORT}/simulator/${key}`
SimulatorEndpoint(key) == << "localhost:", SIMULATOR_PORT, "/simulator/", key >>

\* WLEDClient constructor: this.baseUrl = `http://${ip}`
BaseUrl(ip) == << "http://" >> \o ip

\* config.segments || 8; the configuration gives 2 segments to c1 and 1 to
\* "7" and leaves c2 without the property
NumSegments(key) ==
    CASE key = "c1" -> 2
      [] key = "7" -> 1
      [] OTHER -> 8

\* WLEDSimulator constructor: one segment
NewSegment(i) == [id |-> i, on |-> TRUE, bri |-> 255, fx |-> 0, sx |-> 128, ix |-> 128, pal |-> 0]

NewSimulator(key) == [i \in 1..NumSegments(key) |-> NewSegment(i - 1)]

\* Object.assign(target, source)
ObjectAssign(target, source) == Spread(target, source)

\* setState, the branch of an array newState.seg: the updates from position
\* i on, one after the other
RECURSIVE SetState(_, _, _)
SetState(seg, updates, i) ==
    IF i > Len(updates) THEN seg
    ELSE LET segUpdate == updates[i]
             applied == IF "id" \in DOMAIN segUpdate /\ (segUpdate.id + 1) \in DOMAIN seg
                        THEN [seg EXCEPT ![segUpdate.id + 1] = ObjectAssign(@, segUpdate)]
                        ELSE seg
         IN  SetState(applied, updates, i + 1)

\* getSimulator: req.path.split('/')[2] of a request to this base URL
SimulatorKeyOf(url) == url[Len(url)]

\* res.json(result) of POST /simulator/:controller/json/state as axios
\* gives it to the client
SimulatorAnswer == [ok |-> TRUE, data |-> "success"]

InitSimulator ==
    /\ features = OpsConfiguration
    /\ clients = {}
    /\ NoInvocation
    /\ history = {}
    /\ recording = {}
    /\ parked = <<>>
    /\ server = "starting"
    /\ debug = TRUE
    /\ trace = <<>>
    /\ blackout = FALSE
    /\ PainterFields
    /\ screensaverHidden = FALSE
    /\ NoToastNoCatalog
    /\ NoDebounce
    /\ NoAdmin
    /\ addresses = [key \in ControllerKeys |-> ConfiguredIp(key)]
    /\ baseUrls = <<>>
    /\ simulators = <<>>

frontParts == <<pageFields, page, debounced, admin>>

\* startServer up to its await of startSimulator: createSimulatorApp makes
\* one WLEDSimulator per configured controller
StartSimulator ==
    /\ server = "starting"
    /\ server' = "startingSimulator"
    /\ simulators' = [key \in ControllerKeys |-> NewSimulator(key)]
    /\ UNCHANGED <<features, clients, pc, caller, featureName, props, byController,
                   entries, idx, results, errors, inflight, sent, answered, outcome,
                   response, op, input, history, recording, parked, debug, trace,
                   blackout>>
    /\ UNCHANGED <<frontParts, addresses, baseUrls>>

\* the simulator listens: startServer rewrites the addresses, constructs the
\* ControllerManager with debug off, installs the routes and listens
SimulatorListens ==
    /\ server = "startingSimulator"
    /\ addresses' = [key \in DOMAIN addresses |-> SimulatorEndpoint(key)]
    /\ clients' = DOMAIN addresses
    /\ baseUrls' = [key \in DOMAIN addresses |-> BaseUrl(addresses'[key])]
    /\ debug' = FALSE
    /\ server' = "listening"
    /\ UNCHANGED <<features, pc, caller, featureName, props, byController,
                   entries, idx, results, errors, inflight, sent, answered, outcome,
                   response, op, input, history, recording, parked, trace, blackout>>
    /\ UNCHANGED <<frontParts, simulators>>

\* the simulator cannot listen (its port is taken): startSimulator
\* rejects and startServer ends the process
SimulatorFailsToListen ==
    /\ server = "startingSimulator"
    /\ server' = "exited"
    /\ UNCHANGED <<features, clients, pc, caller, featureName, props, byController,
                   entries, idx, results, errors, inflight, sent, answered, outcome,
                   response, op, input, history, recording, parked, debug, trace,
                   blackout>>
    /\ UNCHANGED <<frontParts, simulation>>

\* setSegments reaches the simulator, which applies setState and answers
SimulatorSetSegments ==
    /\ pc = "awaitSegments"
    /\ LET key == inflight[1].controller
           at == SimulatorKeyOf(baseUrls[key])
           result == ClientResult(key, SimulatorAnswer)
       IN  /\ simulators' = [simulators EXCEPT ![at] = SetState(@, inflight[1].body.seg, 1)]
           /\ results' = PutKey(results, key, result)
           /\ errors' = PushError(errors, key, result)
           /\ answered' = Append(answered, <<key, result, SimulatorAnswer>>)
    /\ idx' = idx + 1
    /\ inflight' = <<>>
    /\ pc' = "loop"
    /\ UNCHANGED <<features, clients, caller, featureName, props, byController,
                   entries, sent, outcome, response>>
    /\ UNCHANGED <<op, input, history, recording>>
    /\ UNCHANGED <<parked, server, debug, trace, blackout>>
    /\ UNCHANGED <<frontParts, addresses, baseUrls>>

\* setSegment reaches the simulator, which applies setState and answers
SimulatorSetSegment ==
    /\ pc = "awaitSegment"
    /\ LET key == inflight[1].controller
           at == SimulatorKeyOf(baseUrls[key])
           result == ClientResult(key, SimulatorAnswer)
       IN  /\ simulators' = [simulators EXCEPT ![at] = SetState(@, inflight[1].body.seg, 1)]
           /\ outcome' = Returned(result)
           /\ answered' = Append(answered, <<key, result, SimulatorAnswer>>)
    /\ inflight' = <<>>
    /\ pc' = "returned"
    /\ UNCHANGED <<features, clients, caller, featureName, props, byController,
                   entries, idx, results, errors, sent, response>>
    /\ UNCHANGED <<op, input, history, recording>>
    /\ UNCHANGED <<parked, server, debug, trace, blackout>>
    /\ UNCHANGED <<frontParts, addresses, baseUrls>>

\* a request that does not reach the simulator within the client's timeout
Unreached == [ok |-> FALSE, message |-> <<"timeout of 5000ms exceeded">>]

NextSimulator ==
    \/ StartSimulator
    \/ SimulatorListens
    \/ SimulatorFailsToListen
    \/ pc = "idle" /\ server = "listening"
          /\ \E name \in RequestNames, p \in Payloads : CallSetFeature(name, p)
    \/ SetFeature
    \/ LoopStep
    \/ SimulatorSetSegments
    \/ SimulatorSetSegment
    \/ SetSegmentsSettles(Unreached)
    \/ SetSegmentSettles(Unreached)
    \/ Finish

SpecSimulator == InitSimulator /\ [][NextSimulator]_vars

(***************************************************************************)
(* C39.  In simulator mode every client was constructed with the           *)
(* simulator endpoint of its own controller key; after a setFeature(f, p)  *)
(* that returned success every target segment of f that the simulator has  *)
(* holds the properties of p; the segment count of every simulated         *)
(* controller and the id of every segment (its index) are as constructed;  *)
(* and a segment that no configured feature targets is as constructed.     *)
(***************************************************************************)
TargetsOf(feature) ==
    IF IsMultiSegment(feature)
    THEN { << feature.targets[i].controller, feature.targets[i].segment >> :
              i \in DOMAIN feature.targets }
    ELSE { << feature.controller, feature.segment >> }

AllTargets == UNION { TargetsOf(features[f]) : f \in DOMAIN features }

ClientsPointAtTheirSimulator ==
    \A key \in clients :
        /\ addresses[key] = SimulatorEndpoint(key)
        /\ baseUrls[key] = << "http://" >> \o SimulatorEndpoint(key)

TargetsHoldPayload ==
    (pc = "returned" /\ outcome[1].kind = "return" /\ outcome[1].value.success) =>
        \A target \in TargetsOf(features[featureName]) :
            (target[2] + 1) \in DOMAIN simulators[target[1]] =>
                \A k \in DOMAIN props \ {"id"} :
                    /\ k \in DOMAIN simulators[target[1]][target[2] + 1]
                    /\ simulators[target[1]][target[2] + 1][k] = props[k]

ShapeAndOthersKept ==
    \A key \in DOMAIN simulators :
        /\ Len(simulators[key]) = NumSegments(key)
        /\ \A i \in DOMAIN simulators[key] :
              /\ simulators[key][i].id = i - 1
              /\ << key, i - 1 >> \notin AllTargets => simulators[key][i] = NewSegment(i - 1)

C39_SimulatorHoldsWhatWasSet ==
    /\ ClientsPointAtTheirSimulator
    /\ TargetsHoldPayload
    /\ ShapeAndOthersKept
====
